---- MODULE Spec2Model ----
(***************************************************************************)
(* A model of the wiki crate: the continuation-driven generator stream     *)
(* (src/src/generators.rs), the query-string writer it sends its requests  *)
(* with (src/src/url.rs, src/src/api.rs), the login protocol               *)
(* (src/src/api.rs, src/src/builder.rs), Page::save with the edit gate     *)
(* (src/src/api.rs) and the parameter encoder (src/src/req.rs,             *)
(* src/src/url.rs, src/wikiproc).                                          *)
(*                                                                         *)
(* A string is a sequence of atoms: an atom is either a run of unreserved  *)
(* characters ("query", "sroffset") or one reserved character ("|", "&",   *)
(* "=", " ").  A percent-escape ("%7C") is one atom of the encoded text.   *)
(***************************************************************************)
EXTENDS Integers, Sequences, FiniteSets, TLC

\* ------------------------------------------------------------------ bounds
\* Number of responses the scripted transport may deliver to one stream.
MaxPages == 3
\* Largest number of items in one response page.
MaxPageLen == 2
\* Number of end-of-stream results recorded before polling stops.
MaxEnds == 2
\* Number of Page::save calls made on one Bot.
MaxSaves == 3
\* Last instant of the clock.
MaxTime == 2
\* Number of values put into one EnumSet, and longest list encoded.
MaxInserts == 3
MaxVecLen == 2
\* times one value is encoded
MaxEncodes == 2
\* attributes declared on one field, and options inside one attribute
MaxAttrs == 2
MaxMetas == 2
\* pages in one response body, and revisions on a page
MaxRespPages == 2
MaxRevs == 2
\* EnumSet conversions: the longest iterator, slice or array converted, and
\* the longest value list an insert is made on.
MaxIterLen == 3
MaxSetLen == 3
\* The longest list of strings given to encode_multivalue.
MaxListLen == 3
\* The patroller: rounds started, and the clock in half seconds.
MaxRounds == 2
MaxClock == 4

\* ------------------------------------------------------------ wire strings
Last(s) == s[Len(s)]
Front(s) == SubSeq(s, 1, Len(s) - 1)

\* urlencoding::encode: everything but ALPHA / DIGIT / "-" / "_" / "." / "~"
\* is percent-escaped.
urlencoding_encode(s) ==
  [i \in 1..Len(s) |->
     CASE s[i] = "|" -> "%7C"
       [] s[i] = "&" -> "%26"
       [] s[i] = "=" -> "%3D"
       [] s[i] = " " -> "%20"
       [] s[i] = "U+001F" -> "%1F"
       [] OTHER -> s[i]]

\* The application/x-www-form-urlencoded writer serde_urlencoded uses: like
\* the above, but a space becomes "+".
form_urlencode(s) ==
  [i \in 1..Len(s) |->
     CASE s[i] = "|" -> "%7C"
       [] s[i] = "&" -> "%26"
       [] s[i] = "=" -> "%3D"
       [] s[i] = " " -> "+"
       [] s[i] = "U+001F" -> "%1F"
       [] OTHER -> s[i]]

\* What the server does with one atom of a received name or value.
url_decode(c) ==
  CASE c = "%7C" -> "|"
    [] c = "%26" -> "&"
    [] c = "%3D" -> "="
    [] c = "%20" -> " "
    [] c = "+" -> " "
    [] c = "%1F" -> "U+001F"
    [] OTHER -> c

\* The parts of s between occurrences of sep: done holds the finished parts,
\* cur the part being read.
RECURSIVE SplitAcc(_, _, _, _)
SplitAcc(s, sep, done, cur) ==
  IF s = <<>> THEN Append(done, cur)
  ELSE IF Head(s) = sep THEN SplitAcc(Tail(s), sep, Append(done, cur), <<>>)
  ELSE SplitAcc(Tail(s), sep, done, Append(cur, Head(s)))

SplitOn(s, sep) == SplitAcc(s, sep, <<>>, <<>>)

\* The pairs a server reads out of a query string, reading from atom i on:
\* "&" ends a pair, the first "=" of a pair ends its name, every other atom
\* is decoded into the name or the value being read.
RECURSIVE ParseFrom(_, _, _, _, _, _)
ParseFrom(q, i, done, name, value, in_value) ==
  IF i > Len(q) THEN Append(done, <<name, value>>)
  ELSE IF q[i] = "&"
    THEN ParseFrom(q, i + 1, Append(done, <<name, value>>), <<>>, <<>>, FALSE)
  ELSE IF q[i] = "=" /\ ~in_value
    THEN ParseFrom(q, i + 1, done, name, value, TRUE)
  ELSE IF in_value
    THEN ParseFrom(q, i + 1, done, name, Append(value, url_decode(q[i])), TRUE)
  ELSE ParseFrom(q, i + 1, done, Append(name, url_decode(q[i])), value, FALSE)

ParseQuery(q) ==
  IF q = <<>> THEN <<>> ELSE ParseFrom(q, 1, <<>>, <<>>, <<>>, FALSE)

\* Simple::add: push "&" unless the buffer is empty, then name=value, both
\* escaped.
Simple_add(q, name, value) ==
  (IF q # <<>> THEN q \o <<"&">> ELSE q)
    \o urlencoding_encode(name) \o <<"=">> \o urlencoding_encode(value)

RECURSIVE WritePairs(_, _)
WritePairs(q, pairs) ==
  IF pairs = <<>> THEN q
  ELSE WritePairs(Simple_add(q, pairs[1][1], pairs[1][2]), Tail(pairs))

\* ------------------------------------------------------------ JSON values
\* An Option<serde_json::Value> as the continue member of a response:
\* absent, an object of members, or a bare string.  flat is FALSE when some
\* member of the object is itself an object or an array.
NoCont == [kind |-> "absent", pairs |-> <<>>, flat |-> TRUE]
ContObj(pairs, flat) == [kind |-> "obj", pairs |-> pairs, flat |-> flat]
ContStr == [kind |-> "str", pairs |-> <<>>, flat |-> TRUE]

ContValues ==
  { ContObj(<< << <<"continue">>, <<"-", "|", "|">> >>,
               << <<"sroffset">>, <<"10">> >> >>, TRUE),
    ContObj(<< << <<"sroffset">>, <<"a", " ", "b", "&", "c", "=", "d">> >> >>, TRUE),
    ContObj(<<>>, TRUE),
    ContObj(<< << <<"sroffset">>, <<"10">> >> >>, FALSE),
    ContStr }

\* serde_urlencoded::to_string of a Value: an object of scalars gives its
\* pairs joined by "&"; a nested member or a top-level scalar is an error.
RECURSIVE FormPairs(_)
FormPairs(pairs) ==
  IF pairs = <<>> THEN <<>>
  ELSE LET one == form_urlencode(pairs[1][1]) \o <<"=">> \o form_urlencode(pairs[1][2])
       IN IF Len(pairs) = 1 THEN one
          ELSE one \o <<"&">> \o FormPairs(Tail(pairs))

serde_urlencoded_to_string(x) ==
  IF x.kind = "obj" /\ x.flat
    THEN [ok |-> TRUE, s |-> FormPairs(x.pairs)]
    ELSE [ok |-> FALSE, s |-> <<>>]

\* add_serde with the separator forgotten: the serialized value is pushed
\* straight after what the buffer already holds.
add_serde_no_separator(q, x) ==
  LET r == serde_urlencoded_to_string(x) IN
  IF ~r.ok THEN [ok |-> FALSE, q |-> q]
  ELSE [ok |-> TRUE, q |-> q \o r.s]

\* Simple::add_serde
add_serde(q, x) ==
  LET r == serde_urlencoded_to_string(x) IN
  IF ~r.ok THEN [ok |-> FALSE, q |-> q]
  ELSE IF r.s # <<>>
    THEN [ok |-> TRUE, q |-> (IF q # <<>> THEN q \o <<"&">> ELSE q) \o r.s]
    ELSE [ok |-> TRUE, q |-> q]

\* ------------------------------------------------------ request template
\* The search strings a SearchGenerator is created with.
Searches == { <<"a", " ", "b">>, <<"x", "&", "y", "|", "z">> }

\* SearchGenerator::create_request, as the pairs Main::ser writes for it:
\* action, the list and its prefixed fields (an empty flag set is written
\* with an empty value, an absent namespace is not written), then format and
\* formatversion.
create_request(search) ==
  << << <<"action">>, <<"query">> >>,
     << <<"list">>, <<"search">> >>,
     << <<"srsearch">>, search >>,
     << <<"srlimit">>, <<"max">> >>,
     << <<"srprop">>, <<>> >>,
     << <<"srinfo">>, <<>> >>,
     << <<"format">>, <<"json">> >>,
     << <<"formatversion">>, <<"2">> >> >>

\* api::mkurl: the query string of the URL.
mkurl(m) == WritePairs(<<>>, m)

\* api::mkurl_with_ext
mkurl_with_ext(m, ext) == add_serde(WritePairs(<<>>, m), ext)

\* --------------------------------------------------------- generator state
StInit == [tag |-> "Init", v |-> <<>>, cont |-> NoCont]
StFut == [tag |-> "Fut", v |-> <<>>, cont |-> NoCont]
StValues(v, cont) == [tag |-> "Values", v |-> v, cont |-> cont]
StCont(c) == [tag |-> "Cont", v |-> <<>>, cont |-> c]
StDone == [tag |-> "Done", v |-> <<>>, cont |-> NoCont]

\* State::values forgetting the token of a drained page.
State_values_drops_token(v, cont) ==
  IF v = <<>> THEN StDone ELSE StValues(v, cont)

\* State::values going for the next page as soon as there is a token.
State_values_prefetch(v, cont) ==
  IF cont.kind # "absent" THEN StCont(cont)
  ELSE IF v = <<>> THEN StDone ELSE StValues(v, cont)

\* State::values
State_values(v, cont) ==
  IF v = <<>>
    THEN IF cont.kind # "absent" THEN StCont(cont) ELSE StDone
    ELSE StValues(v, cont)

\* tryit! starting over instead of finishing.
tryit_state_restart(e) == StInit

\* The state the tryit! macro leaves behind on an error.
tryit_state(e) == StDone

\* Results of poll_next.
RetNone == [k |-> "none", item |-> 0, e |-> "-"]
RetPending == [k |-> "pending", item |-> 0, e |-> "-"]
RetItem(i) == [k |-> "item", item |-> i, e |-> "-"]
RetErr(e) == [k |-> "err", item |-> 0, e |-> e]
RetEnd == [k |-> "end", item |-> 0, e |-> "-"]

\* Responses of the transport, as the future of send_parse resolves them.
NoRes == [k |-> "none", e |-> "-", items |-> <<>>, cont |-> NoCont, untangle_ok |-> TRUE]
ResErr(e) == [k |-> "err", e |-> e, items |-> <<>>, cont |-> NoCont, untangle_ok |-> TRUE]
ResPage(items, cont, u) == [k |-> "page", e |-> "-", items |-> items, cont |-> cont, untangle_ok |-> u]

\* The errors send_parse can resolve to: the transport failed, the body
\* carried an error member, the body did not decode.
SendErrors == {"Request", "MediaWiki", "SerdeJson"}

VARIABLES
  search,     \* the generator's template parameter
  state,      \* GeneratorStream.state
  fut,        \* the boxed response future held by State::Fut
  requests,   \* query strings sent so far, in order
  pages,      \* responses delivered by the transport so far, in order
  out,        \* every Ready result of poll_next so far, in order
  ret,        \* result of the latest poll_next
  panicked    \* "" or the message of the panic that ended the run

gvars == <<search, state, fut, requests, pages, out, ret, panicked>>

VARIABLES
  linput,     \* what the login was called with: path, url, secret, editdelay
  lpc,        \* the await point the login is suspended at
  llog,       \* requests sent and responses received by the login, in order
  lbody,      \* the decoded body of the login POST, once received
  loutcome,   \* what the login returned to its caller
  lmade       \* where the Site is and what Site::login has made of it

lvars == <<linput, lpc, llog, lbody, loutcome, lmade>>

VARIABLES
  period,     \* the editdelay the Bot's Interval was made with
  now,        \* the clock
  deadline,   \* the instant the Interval's next tick completes at
  control,    \* BotInn.control: the task holding the Mutex and those waiting
  spc,        \* the await point each call site's Page::save is suspended at
  sres,       \* what each call site's latest Page::save returned
  slog,       \* requests sent by Page::save, in order, with the time sent
  calls,      \* number of Page::save calls made so far
  spage       \* the page each task's latest Page::save was called on

svars == <<period, now, deadline, control, spc, sres, slog, calls, spage>>

VARIABLES
  eset,       \* an EnumSet: its flag and its values
  ehist,      \* every variant the EnumSet was made with or given to insert
  eret,       \* what the latest EnumSet::insert returned
  ein,        \* the field value or request last encoded
  eout,       \* the pairs the encoder wrote for it
  eruns       \* how many times it has been encoded

evars == <<eset, ehist, eret, ein, eout, eruns>>

VARIABLES
  dattrs,     \* the attributes declared on one field of a derived record
  dnext,      \* how many of them gen_fields has looked at
  dopts,      \* the FieldOptions gen_fields holds for the field
  dcode       \* what gen_fields generated for the field

dvars == <<dattrs, dnext, dopts, dcode>>

VARIABLES
  builder,    \* an EditBuilder
  bres        \* what build or try_build made of it

bvars == <<builder, bres>>

VARIABLES
  qpath,      \* the operation that sends one request and reads its response
  qpc,        \* where it stands: start, sent, ready, done
  qresp,      \* what the transport answered
  qout        \* what the operation returned to its caller

qvars == <<qpath, qpc, qresp, qout>>

VARIABLES
  streams,    \* the GeneratorStreams made from one Session, by number
  session     \* the Session they were made from: URL, credentials, edit gate

mvars == <<streams, session>>

VARIABLES
  cset,       \* an EnumSet made through its constructors and conversions
  cop         \* the constructor, conversion or operation that made it last

cvars == <<cset, cop>>

VARIABLES
  vin,        \* the list of strings given to encode_multivalue
  vout        \* what encode_multivalue returned for it, once it has run

vvars == <<vin, vout>>

VARIABLES
  patroller,  \* the RecentChangesPatroller: prev_time, state, interval, errored
  pclock,     \* the clock, in half seconds
  pcreated,   \* the prev_time RecentChangesPatroller::new set
  prounds,    \* the ListRc of every RecentChangesGenerator made so far, in order
  psent,      \* the queries sent so far, each with the round it was sent in
  presp,      \* how many responses the transport has delivered
  pout,       \* every Ready result of the patroller's poll_next so far, in order
  ppanicked   \* "" or the message of the panic that ended the run

pvars == <<patroller, pclock, pcreated, prounds, psent, presp, pout, ppanicked>>

\* What the actions of one part leave alone: the variables of the others.
gframe == <<lvars, svars, evars, dvars, bvars, qvars, mvars, cvars, vvars, pvars>>
lframe == <<gvars, svars, evars, dvars, bvars, qvars, mvars, cvars, vvars, pvars>>
sframe == <<gvars, lvars, evars, dvars, bvars, qvars, mvars, cvars, vvars, pvars>>
eframe == <<gvars, lvars, svars, dvars, bvars, qvars, mvars, cvars, vvars, pvars>>
dframe == <<gvars, lvars, svars, evars, bvars, qvars, mvars, cvars, vvars, pvars>>
bframe == <<gvars, lvars, svars, evars, dvars, qvars, mvars, cvars, vvars, pvars>>
qframe == <<gvars, lvars, svars, evars, dvars, bvars, mvars, cvars, vvars, pvars>>
mframe == <<gvars, lvars, svars, evars, dvars, bvars, qvars, cvars, vvars, pvars>>
cframe == <<gvars, lvars, svars, evars, dvars, bvars, qvars, mvars, vvars, pvars>>
vframe == <<gvars, lvars, svars, evars, dvars, bvars, qvars, mvars, cvars, pvars>>
pframe == <<gvars, lvars, svars, evars, dvars, bvars, qvars, mvars, cvars, vvars>>

vars == <<gvars, lvars, svars, evars, dvars, bvars, qvars, mvars, cvars, vvars, pvars>>

\* ---------------------------------------------------------------- helpers
RECURSIVE Concat(_)
Concat(ss) == IF ss = <<>> THEN <<>> ELSE Head(ss) \o Concat(Tail(ss))

PageItems == Concat([i \in 1..Len(pages) |-> pages[i].items])
OutItems == LET idx == SelectSeq([i \in 1..Len(out) |-> i], LAMBDA i: out[i].k = "item")
            IN [j \in 1..Len(idx) |-> out[idx[j]].item]
Count(k) == Cardinality({i \in 1..Len(out) : out[i].k = k})
Range(s) == {s[i] : i \in 1..Len(s)}

\* ------------------------------------------------------------------ login
\* A login token, a bot password and the bodies a login POST can decode to.
LoginTokens == { <<"tokA", "+">>, <<"tokB", "+">> }
Usernames == { <<"Example@bot">>, <<"Other@task">> }
Passwords == { <<"s3cret">> }

JMissing == [kind |-> "missing", s |-> ""]
JStr(s) == [kind |-> "str", s |-> s]
JNum == [kind |-> "num", s |-> ""]

\* [login |-> whether the body has a login member, result |-> its result]
LoginBodies ==
  { [login |-> FALSE, result |-> JMissing] }
    \cup { [login |-> TRUE, result |-> r] :
             r \in {JMissing, JNum, JStr("Success"), JStr("success"),
                    JStr("Failed"), JStr("WrongPass")} }

\* The test accepting any result that is present.
IsSuccess_any_result(v) == v.login /\ v.result.kind # "missing"

\* v.get("login").and_then(|v| v.get("result")).map_or(false, |v| v == "Success")
IsSuccess(v) == v.login /\ v.result.kind = "str" /\ v.result.s = "Success"

\* Names the userinfo query can report.
UserNames ==
  { <<"Example">>,
    <<"127", ".", "0", ".", "0", ".", "1">>,
    <<"", ":", "", ":", "1">> }

Octets == {"0", "1", "127", "255"}
Hextets == {"0", "1", "127", "255", "fe80"}

\* Ipv4Addr::from_str(..).is_ok(): four decimal octets separated by dots.
Ipv4Addr_from_str_is_ok(name) ==
  LET parts == SplitOn(name, ".") IN
  /\ Len(parts) = 4
  /\ \A i \in 1..4 : Len(parts[i]) = 1 /\ parts[i][1] \in Octets

\* Ipv6Addr::from_str(..).is_ok(): eight groups, or fewer with one "::".
Ipv6Addr_from_str_is_ok(name) ==
  LET parts == SplitOn(name, ":")
      gaps == {i \in 1..Len(parts) : parts[i] = <<"">> \/ parts[i] = <<>>}
  IN
  /\ Len(parts) >= 3 /\ Len(parts) <= 8
  /\ \A i \in 1..Len(parts) : i \notin gaps => Len(parts[i]) = 1 /\ parts[i][1] \in Hextets
  /\ (Len(parts) = 8 /\ gaps = {}) \/ (Len(parts) < 8 /\ gaps # {})

\* Main::tokens(TokenType::LOGIN), as written by Main::ser.
Main_tokens_login ==
  << << <<"action">>, <<"query">> >>,
     << <<"meta">>, <<"tokens">> >>,
     << <<"type">>, <<"login">> >>,
     << <<"format">>, <<"json">> >>,
     << <<"formatversion">>, <<"2">> >> >>

\* The login form with the token left out of lgtoken.
Main_login_form_stale_token(name, password, token) ==
  << << <<"action">>, <<"login">> >>,
     << <<"lgname">>, name >>,
     << <<"lgpassword">>, password >>,
     << <<"lgtoken">>, <<>> >>,
     << <<"format">>, <<"json">> >>,
     << <<"formatversion">>, <<"2">> >> >>

\* Main::login(Login { name, password, token }).build_form(): the fields of
\* the multipart form, in the order Main::ser adds them.
Main_login_form(name, password, token) ==
  << << <<"action">>, <<"login">> >>,
     << <<"lgname">>, name >>,
     << <<"lgpassword">>, password >>,
     << <<"lgtoken">>, token >>,
     << <<"format">>, <<"json">> >>,
     << <<"formatversion">>, <<"2">> >> >>

\* Main::query(Query { meta: UserInfo(MetaUserInfo { prop }) }); rights is
\* whether prop is UserInfoProp::Rights (Site::login) or None (the builder).
Main_userinfo(rights) ==
  << << <<"action">>, <<"query">> >>,
     << <<"meta">>, <<"userinfo">> >> >>
  \o (IF rights THEN << << <<"uiprop">>, <<"rights">> >> >> ELSE <<>>)
  \o << << <<"format">>, <<"json">> >>,
        << <<"formatversion">>, <<"2">> >> >>

\* The errors the token fetch can end in: api::get_tokens (Site::login)
\* sends and decodes with reqwest alone; the builder's goes through
\* send_parse.
TokenErrors(path) ==
  IF path = "login" THEN {"Request"} ELSE {"Request", "MediaWiki", "SerdeJson"}

\* The errors the userinfo query can end in: send_parse in Site::login,
\* reqwest's execute and json in the builder.
UserInfoErrors(path) ==
  IF path = "login" THEN {"Request", "MediaWiki", "SerdeJson"} ELSE {"Request"}

\* Entries of llog.
Sent(what, body) == [ev |-> "send", what |-> what, body |-> body, ok |-> TRUE, token |-> <<>>]
Recv(what, ok, token) == [ev |-> "recv", what |-> what, body |-> <<>>, ok |-> ok, token |-> token]

NoBody == [login |-> FALSE, result |-> [kind |-> "none", s |-> ""]]
NoOutcome == [k |-> "none", e |-> "-"]

\* The Site a login is called on, as long as the call owns it: its URL and
\* its client, no Interval, no Bot with its Mutex, no JobQueue.
SiteHeld ==
  [site |-> "held", url |-> "valid", client |-> "anonymous",
   interval |-> "none", bot |-> FALSE, control |-> FALSE, queue |-> FALSE]
Outcome(k, e) == [k |-> k, e |-> e]

\* The paths to an authorized client: Site::login, and the builder with a
\* bot password or with an OAuth token.
LoginInputs ==
  [ path : {"login", "password", "oauth"},
    url : {"valid", "invalid", "with_query"},
    secret : {"plain", "control_char"},
    editdelay : {0, 1} ]

\* A Site exists only with a URL that parsed and has no query; editdelay is
\* an argument of Site::login alone; only the OAuth token goes into a header.
LoginInputOk(i) ==
  /\ i.path = "login" => i.url = "valid"
  /\ i.path # "login" => i.editdelay = 1
  /\ i.path # "oauth" => i.secret = "plain"

\* Field values.  opt marks an Option, some whether it is Some.
FV(ty) ==
  [ty |-> ty, opt |-> FALSE, some |-> TRUE, b |-> FALSE, elem |-> "-",
   items |-> <<>>, values |-> <<>>, bits |-> {}, k |-> "-"]
FString(str) == [FV("String") EXCEPT !.items = <<str>>]
FU32(n) == [FV("u32") EXCEPT !.items = <<n>>]
FBool(b) == [FV("bool") EXCEPT !.b = b]
FVec(elem, items) == [FV("Vec") EXCEPT !.elem = elem, !.items = items]
FEnumSet(values) == [FV("EnumSet") EXCEPT !.values = values]
FBitflags(bits) == [FV("Bitflags") EXCEPT !.bits = bits]
FLogEventsProp(bits) == [FV("LogEventsProp") EXCEPT !.bits = bits]
FLimit(k, ns) == [FV("Limit") EXCEPT !.k = k, !.items = ns]
FEditSection(k, str) == [FV("EditSection") EXCEPT !.k = k, !.items = <<str>>]
FSome(v) == [v EXCEPT !.opt = TRUE]
FNone(ty) == [FV(ty) EXCEPT !.opt = TRUE, !.some = FALSE]

\* PageSpec, a mutual_exclusive enum: the variant's name, lowercased, is the
\* name its one field is written under.
PageSpec_Title(title) == [variant |-> "title", v |-> FString(title)]
PageSpec_PageId(id) == [variant |-> "pageid", v |-> FU32(id)]
NoSpec == [variant |-> "-", v |-> FV("-")]

\* EditBuilder::default(): every Option None, every flag false.  The fields
\* carried here are the ones the Edit of the model is made of.
EditBuilder_new ==
  [spec |-> NoSpec, section |-> FNone("EditSection"), text |-> FNone("String"),
   tags |-> FNone("Vec"), bot |-> FBool(FALSE), baserevid |-> FNone("u32"),
   token |-> FNone("String")]

\* Nothing built yet.
NoBuild == [k |-> "none", e |-> "-", edit |-> [what |-> "none"]]

BIdle ==
  /\ builder = EditBuilder_new
  /\ bres = NoBuild

\* The error member of a response body: absent, null, or the server's
\* payload (a string or an object).
ErrAbsent == [kind |-> "absent", s |-> ""]
ErrNull == [kind |-> "null", s |-> ""]
ErrorMembers ==
  {ErrAbsent, ErrNull, [kind |-> "str", s |-> "badtoken"], [kind |-> "obj", s |-> "editconflict"]}

\* What is under the keys other than error: whether it has the fields the
\* caller's type asks for, how many pages, how many revisions on the first.
NoData == [decodes |-> FALSE, pages |-> 0, revisions |-> 0]

\* Responses: the transport failed, the body is not JSON, or a JSON body.
NoResp == [k |-> "none", top |-> "-", error |-> ErrAbsent, data |-> NoData]
RFail == [NoResp EXCEPT !.k = "fail"]
RNotJson == [NoResp EXCEPT !.k = "notjson"]
RJson(top, error, data) == [k |-> "json", top |-> top, error |-> error, data |-> data]

\* What an operation returns: Ok with the data, Err with the kind of the
\* crate's Error (and the payload of Error::MediaWiki), or a panic.
NoOut == [k |-> "none", e |-> "-", payload |-> ErrAbsent, v |-> NoData]
QOk(v) == [NoOut EXCEPT !.k = "Ok", !.v = v]
QErr(e) == [NoOut EXCEPT !.k = "Err", !.e = e]
QMediaWiki(payload) == [NoOut EXCEPT !.k = "Err", !.e = "MediaWiki", !.payload = payload]
QPanic(msg) == [NoOut EXCEPT !.k = "Panic", !.e = msg]

QIdle ==
  /\ qpath = "get_d"
  /\ qpc = "off"
  /\ qresp = NoResp
  /\ qout = NoOut

\* The streams running side by side.
Streams == {1, 2}

\* WikiGenerator::into_stream: State::Init, nothing sent, nothing yielded.
\* fut is the boxed future of State::Fut with the query it was sent for.
NoFut == [st |-> "none", q |-> <<>>, res |-> NoRes]
Stream_new(srsearch) ==
  [search |-> srsearch, state |-> StInit, fut |-> NoFut, out |-> <<>>,
   panicked |-> "", alive |-> TRUE]

\* The edit gate with nobody holding or waiting for it.
GateFree == [holder |-> 0, waiters |-> <<>>]

MIdle ==
  /\ streams = [g \in Streams |-> [Stream_new(<<>>) EXCEPT !.alive = FALSE]]
  /\ session = [url |-> "-", auth |-> "-", gate |-> GateFree]

CIdle ==
  /\ cset = [flag |-> 0, values |-> <<>>]
  /\ cop = "none"

VIdle ==
  /\ vin = <<>>
  /\ vout = [done |-> FALSE, s |-> <<>>]

\* RecentChangesPatroller::now(): one second before Utc::now().
Patroller_now(clock) == clock - 2

\* tokio::time::sleep(interval) made at clock: State::Sleep.
Patroller_Sleep(clock, interval) ==
  [tag |-> "Sleep", deadline |-> clock + interval,
   stream |-> [rc |-> [start |-> 0, end |-> 0], state |-> StDone,
               fut |-> [st |-> "none", res |-> NoRes]]]

\* RecentChangesGenerator::new(bot, rc).into_stream(): State::Stream.
Patroller_Stream(rc) ==
  [tag |-> "Stream", deadline |-> 0,
   stream |-> [rc |-> rc, state |-> StInit, fut |-> [st |-> "none", res |-> NoRes]]]

\* RecentChangesPatroller::new at clock.
RecentChangesPatroller_new(clock, interval) ==
  [prev_time |-> Patroller_now(clock),
   state |-> Patroller_Sleep(clock, interval),
   interval |-> interval,
   errored |-> FALSE]

PIdle ==
  /\ patroller = RecentChangesPatroller_new(2, 1)
  /\ pclock = 2
  /\ pcreated = 0
  /\ prounds = <<>>
  /\ psent = <<>>
  /\ presp = 0
  /\ pout = <<>>
  /\ ppanicked = ""

LIdle ==
  /\ linput = [path |-> "login", url |-> "valid", secret |-> "plain", editdelay |-> 1]
  /\ lpc = "off"
  /\ llog = <<>>
  /\ lbody = NoBody
  /\ loutcome = NoOutcome
  /\ lmade = SiteHeld

\* The call sites that share one Bot.
Tasks == {1, 2}

\* The periods a Bot is made with (a zero period panics in Site::login).
Periods == {1, 2}

\* No Page::save called yet.
NoPage == [bot |-> FALSE, changed |-> FALSE, none |-> TRUE]

SIdle ==
  /\ period = 1
  /\ now = 0
  /\ deadline = 0
  /\ control = [holder |-> 0, waiters |-> <<>>]
  /\ spc = [t \in Tasks |-> "off"]
  /\ sres = [t \in Tasks |-> "none"]
  /\ slog = <<>>
  /\ calls = 0
  /\ spage = [t \in Tasks |-> NoPage]

EIdle ==
  /\ eset = [flag |-> 0, values |-> <<>>]
  /\ ehist = <<>>
  /\ eret = "none"
  /\ ein = [what |-> "none"]
  /\ eout = <<>>
  /\ eruns = 0

\* FieldOptions::default().
FieldOptions_default == [flatten |-> FALSE, override_name |-> "None"]

DIdle ==
  /\ dattrs = <<>>
  /\ dnext = 0
  /\ dopts = FieldOptions_default
  /\ dcode = [k |-> "none"]

GIdle ==
  /\ search = <<"a", " ", "b">>
  /\ state = StInit
  /\ fut = [st |-> "none", res |-> NoRes]
  /\ requests = <<>>
  /\ pages = <<>>
  /\ out = <<>>
  /\ ret = RetNone
  /\ panicked = ""

GInit ==
  /\ search \in Searches
  /\ state = StInit
  /\ fut = [st |-> "none", res |-> NoRes]
  /\ requests = <<>>
  /\ pages = <<>>
  /\ out = <<>>
  /\ ret = RetNone
  /\ panicked = ""
  /\ LIdle
  /\ SIdle
  /\ EIdle
  /\ DIdle
  /\ BIdle
  /\ QIdle
  /\ MIdle
  /\ CIdle
  /\ VIdle
  /\ PIdle

\* The tail of poll_next: send the request, store the future, poll again;
\* the fresh future has not been answered yet, so that poll is Pending.
SendRequest(url) ==
  /\ requests' = Append(requests, url)
  /\ state' = StFut
  /\ fut' = [st |-> "pending", res |-> NoRes]
  /\ ret' = RetPending
  /\ UNCHANGED <<search, pages, out, panicked>>

Yield(r, s) ==
  /\ state' = s
  /\ out' = Append(out, r)
  /\ ret' = r

CanPoll == panicked = "" /\ Count("end") < MaxEnds

\* poll_next, State::Init
PollInit ==
  /\ CanPoll
  /\ state.tag = "Init"
  /\ SendRequest(mkurl(create_request(search)))
  /\ UNCHANGED gframe

\* poll_next, State::Cont
PollCont ==
  /\ CanPoll
  /\ state.tag = "Cont"
  /\ LET u == mkurl_with_ext(create_request(search), state.cont) IN
     IF u.ok THEN SendRequest(u.q)
     ELSE /\ Yield(RetErr("SerdeUrlEncoded"), tryit_state("SerdeUrlEncoded"))
          /\ UNCHANGED <<search, fut, requests, pages, panicked>>
  /\ UNCHANGED gframe

\* poll_next, State::Values
PollValues ==
  /\ CanPoll
  /\ state.tag = "Values"
  /\ IF state.v = <<>>
       THEN /\ panicked' = "must always have value"
            /\ UNCHANGED <<search, state, fut, requests, pages, out, ret>>
       ELSE /\ Yield(RetItem(Last(state.v)), State_values(Front(state.v), state.cont))
            /\ UNCHANGED <<search, fut, requests, pages, panicked>>
  /\ UNCHANGED gframe

\* poll_next, State::Fut, the future not yet resolved
PollFutPending ==
  /\ CanPoll
  /\ state.tag = "Fut" /\ fut.st = "pending"
  /\ ret' = RetPending
  /\ UNCHANGED <<search, state, fut, requests, pages, out, panicked>>
  /\ UNCHANGED gframe

\* poll_next, State::Fut, the future resolves
PollFutReady ==
  /\ CanPoll
  /\ state.tag = "Fut" /\ fut.st = "ready"
  /\ LET res == fut.res IN
     IF res.k = "err" THEN
       /\ Yield(RetErr(res.e), tryit_state(res.e))
       /\ fut' = [st |-> "none", res |-> NoRes]
       /\ UNCHANGED <<search, requests, pages, panicked>>
     ELSE IF ~res.untangle_ok THEN
       /\ Yield(RetErr("Untangle"), tryit_state("Untangle"))
       /\ fut' = [st |-> "none", res |-> NoRes]
       /\ UNCHANGED <<search, requests, pages, panicked>>
     ELSE IF res.items # <<>> THEN
       /\ Yield(RetItem(Last(res.items)), State_values(Front(res.items), res.cont))
       /\ fut' = [st |-> "none", res |-> NoRes]
       /\ UNCHANGED <<search, requests, pages, panicked>>
     ELSE IF res.cont.kind # "absent" THEN
       /\ panicked' = "Cannot continue without return value"
       /\ fut' = [st |-> "completed", res |-> NoRes]
       /\ UNCHANGED <<search, state, requests, pages, out, ret>>
     ELSE
       /\ Yield(RetEnd, state)
       /\ fut' = [st |-> "completed", res |-> NoRes]
       /\ UNCHANGED <<search, requests, pages, panicked>>
  /\ UNCHANGED gframe

\* poll_next, State::Fut, the future already returned its value: the boxed
\* async block of send_parse is polled after completion, which panics.
PollFutCompleted ==
  /\ CanPoll
  /\ state.tag = "Fut" /\ fut.st = "completed"
  /\ panicked' = "async block resumed after completion"
  /\ UNCHANGED <<search, state, fut, requests, pages, out, ret>>
  /\ UNCHANGED gframe

\* poll_next, State::Done
PollDone ==
  /\ CanPoll
  /\ state.tag = "Done"
  /\ Yield(RetEnd, state)
  /\ UNCHANGED <<search, fut, requests, pages, panicked>>
  /\ UNCHANGED gframe

\* The transport answers the request in flight.  Items are numbered in the
\* order the server lists them, across pages.
TransportRespond ==
  /\ panicked = ""
  /\ fut.st = "pending"
  /\ Len(pages) < MaxPages
  /\ \E res \in {ResErr(e) : e \in SendErrors}
              \cup {ResPage(<<>>, NoCont, FALSE)}
              \cup {ResPage([i \in 1..n |-> Len(PageItems) + i], c, TRUE) :
                      n \in 0..MaxPageLen, c \in ContValues \cup {NoCont}} :
       /\ fut' = [st |-> "ready", res |-> res]
       /\ pages' = Append(pages, res)
  /\ UNCHANGED <<search, state, requests, out, ret, panicked>>
  /\ UNCHANGED gframe

GNext ==
  \/ PollInit
  \/ PollCont
  \/ PollValues
  \/ PollFutPending
  \/ PollFutReady
  \/ PollFutCompleted
  \/ PollDone
  \/ TransportRespond

SpecGen == GInit /\ [][GNext]_vars

\* A server that answers every request and whose listing ends: by the last
\* page it has, the page it returns carries no continuation token.
ServerRespond ==
  /\ panicked = ""
  /\ fut.st = "pending"
  /\ Len(pages) < MaxPages
  /\ \E res \in {ResErr(e) : e \in SendErrors}
              \cup {ResPage(<<>>, NoCont, FALSE)}
              \cup {ResPage([i \in 1..n |-> Len(PageItems) + i], c, TRUE) :
                      n \in 0..MaxPageLen,
                      c \in IF Len(pages) + 1 < MaxPages
                              THEN ContValues \cup {NoCont} ELSE {NoCont}} :
       /\ fut' = [st |-> "ready", res |-> res]
       /\ pages' = Append(pages, res)
  /\ UNCHANGED <<search, state, requests, out, ret, panicked>>
  /\ UNCHANGED gframe

\* The consumer polls the stream: whichever branch of poll_next the state
\* selects.
GPoll ==
  \/ PollInit
  \/ PollCont
  \/ PollValues
  \/ PollFutPending
  \/ PollFutReady
  \/ PollFutCompleted
  \/ PollDone

GNextFair ==
  \/ GPoll
  \/ ServerRespond

\* The stream keeps being polled and the transport keeps answering.
SpecGenFair ==
  GInit /\ [][GNextFair]_vars /\ WF_vars(GPoll) /\ WF_vars(ServerRespond)

\* ---------------------------------------------------------- login actions
LInit ==
  /\ linput \in {i \in LoginInputs : LoginInputOk(i)}
  /\ lpc = "start"
  /\ llog = <<>>
  /\ lbody = NoBody
  /\ loutcome = NoOutcome
  /\ lmade = SiteHeld
  /\ GIdle
  /\ SIdle
  /\ EIdle
  /\ DIdle
  /\ BIdle
  /\ QIdle
  /\ MIdle
  /\ CIdle
  /\ VIdle
  /\ PIdle

\* Site::login making the JobQueue before it looks at the result.
Site_login_made_queue_first(o) ==
  CASE o.k = "Panic" -> [SiteHeld EXCEPT !.site = "dropped"]
    [] o.k = "Err" -> [SiteHeld EXCEPT !.site = "returned", !.interval = "dropped",
                                       !.queue = TRUE]
    [] o.k = "Ok" -> [SiteHeld EXCEPT !.site = "moved", !.interval = "in_control",
                                      !.bot = TRUE, !.control = TRUE, !.queue = TRUE]

\* The end of Site::login with o: a panic unwinds through the call and drops
\* the Site.  Otherwise the Interval exists by now; Err((self, e)) gives the
\* Site back and lets the Interval drop, Ok makes the JobQueue and moves
\* the URL, the client and the Interval, behind its Mutex, into the Bot.
Site_login_made(o) ==
  CASE o.k = "Panic" -> [SiteHeld EXCEPT !.site = "dropped"]
    [] o.k = "Err" -> [SiteHeld EXCEPT !.site = "returned", !.interval = "dropped"]
    [] o.k = "Ok" -> [SiteHeld EXCEPT !.site = "moved", !.interval = "in_control",
                                      !.bot = TRUE, !.control = TRUE, !.queue = TRUE]

\* The builder owns no Site and makes no Bot.
LEnd(o) ==
  /\ lpc' = "end"
  /\ loutcome' = o
  /\ lmade' = IF linput.path = "login" THEN Site_login_made(o)
              ELSE [SiteHeld EXCEPT !.site = "none"]

\* The end of Site::login once login_ has returned r: the interval is made
\* before r is looked at, and tokio's interval panics on a zero period.
Site_login_finish(r) ==
  IF linput.editdelay = 0
    THEN Outcome("Panic", "period must be non-zero")
    ELSE r

\* The call, up to its first await.  Site::login sends the token request at
\* once; the builder first parses the URL, asserts it has no query, makes
\* the Authorization header of an OAuth token, and then sends the token
\* request (bot password) or the userinfo query (OAuth).
LoginBegin ==
  /\ lpc = "start"
  /\ IF linput.path = "login" THEN
       /\ lpc' = "token"
       /\ llog' = Append(llog, Sent("tokens", Main_tokens_login))
       /\ UNCHANGED <<loutcome, lmade>>
     ELSE IF linput.url = "invalid" THEN
       /\ LEnd(Outcome("Err", "InvalidUrl"))
       /\ UNCHANGED llog
     ELSE IF linput.url = "with_query" THEN
       /\ LEnd(Outcome("Panic", "assertion failed: url.query().is_none()"))
       /\ UNCHANGED llog
     ELSE IF linput.path = "oauth" /\ linput.secret = "control_char" THEN
       /\ LEnd(Outcome("Err", "InvalidHeaderValue"))
       /\ UNCHANGED llog
     ELSE IF linput.path = "password" THEN
       /\ lpc' = "token"
       /\ llog' = Append(llog, Sent("tokens", Main_tokens_login))
       /\ UNCHANGED <<loutcome, lmade>>
     ELSE
       /\ lpc' = "userinfo"
       /\ llog' = Append(llog, Sent("userinfo", Main_userinfo(FALSE)))
       /\ UNCHANGED <<loutcome, lmade>>
  /\ UNCHANGED <<linput, lbody>>
  /\ UNCHANGED lframe

\* get_tokens::<LoginToken> resolves: an error is returned with ?, a token
\* goes into the login form, which is posted.
LoginTokenResponse ==
  /\ lpc = "token"
  /\ \/ \E e \in TokenErrors(linput.path) :
          /\ llog' = Append(llog, Recv("tokens", FALSE, <<>>))
          /\ LEnd(IF linput.path = "login"
                    THEN Site_login_finish(Outcome("Err", e))
                    ELSE Outcome("Err", e))
     \/ \E t \in LoginTokens, n \in Usernames, p \in Passwords :
          /\ llog' = llog \o << Recv("tokens", TRUE, t),
                                Sent("login", Main_login_form(n, p, t)) >>
          /\ lpc' = "post"
          /\ UNCHANGED <<loutcome, lmade>>
  /\ UNCHANGED <<linput, lbody>>
  /\ UNCHANGED lframe

\* send_and_report_err of the login POST resolves: an error is returned with
\* ?; a body whose login.result is "Success" leads to the userinfo query;
\* any other body panics.
LoginPostResponse ==
  /\ lpc = "post"
  /\ \/ \E e \in {"Request", "MediaWiki"} :
          /\ llog' = Append(llog, Recv("login", FALSE, <<>>))
          /\ LEnd(IF linput.path = "login"
                    THEN Site_login_finish(Outcome("Err", e))
                    ELSE Outcome("Err", e))
          /\ UNCHANGED lbody
     \/ \E v \in LoginBodies :
          /\ lbody' = v
          /\ IF IsSuccess(v) THEN
               /\ llog' = llog \o << Recv("login", TRUE, <<>>),
                                     Sent("userinfo", Main_userinfo(linput.path = "login")) >>
               /\ lpc' = "userinfo"
               /\ UNCHANGED <<loutcome, lmade>>
             ELSE
               /\ llog' = Append(llog, Recv("login", TRUE, <<>>))
               /\ LEnd(Outcome("Panic", "Vandalism detected."))
  /\ UNCHANGED linput
  /\ UNCHANGED lframe

\* The userinfo query resolves.  Site::login keeps the rights and returns
\* the Bot; the builder rejects a name that is an IP literal.
LoginUserInfoResponse ==
  /\ lpc = "userinfo"
  /\ \/ \E e \in UserInfoErrors(linput.path) :
          /\ llog' = Append(llog, Recv("userinfo", FALSE, <<>>))
          /\ LEnd(IF linput.path = "login"
                    THEN Site_login_finish(Outcome("Err", e))
                    ELSE Outcome("Err", e))
     \/ \E name \in UserNames, highlimits \in BOOLEAN :
          /\ llog' = Append(llog, Recv("userinfo", TRUE, name))
          /\ LEnd(IF linput.path = "login"
                    THEN Site_login_finish(Outcome("Ok", IF highlimits THEN "highlimits" ELSE "-"))
                    ELSE IF Ipv4Addr_from_str_is_ok(name) \/ Ipv6Addr_from_str_is_ok(name)
                      THEN Outcome("Err", "Unauthorized")
                      ELSE Outcome("Ok", "-"))
  /\ UNCHANGED <<linput, lbody>>
  /\ UNCHANGED lframe

LNext ==
  \/ LoginBegin
  \/ LoginTokenResponse
  \/ LoginPostResponse
  \/ LoginUserInfoResponse

SpecLogin == LInit /\ [][LNext]_vars

\* ------------------------------------------------------------ Page::save
SInit ==
  /\ period \in Periods
  /\ now = 0
  /\ deadline = 0
  /\ control = [holder |-> 0, waiters |-> <<>>]
  /\ spc = [t \in Tasks |-> "idle"]
  /\ sres = [t \in Tasks |-> "none"]
  /\ slog = <<>>
  /\ calls = 0
  /\ spage = [t \in Tasks |-> NoPage]
  /\ GIdle
  /\ LIdle
  /\ EIdle
  /\ DIdle
  /\ BIdle
  /\ QIdle
  /\ MIdle
  /\ CIdle
  /\ VIdle
  /\ PIdle

\* Entries of slog.
SentAt(what, t) == [what |-> what, task |-> t, at |-> now]

\* The pages save is called on: with or without a Bot, changed or not.
SavePages == [bot : BOOLEAN, changed : BOOLEAN, none : {FALSE}]

\* Interval::tick completing at instant t: the next deadline, under
\* MissedTickBehavior::Delay.
Interval_next_deadline(t) ==
  IF t > deadline THEN t + period ELSE deadline + period

\* Dropping the MutexGuard: the Mutex goes to the longest-waiting task, which
\* goes on to its tick.
Mutex_unlock ==
  IF control.waiters = <<>>
    THEN [holder |-> 0, waiters |-> <<>>]
    ELSE [holder |-> Head(control.waiters), waiters |-> Tail(control.waiters)]

\* Page::save up to its first await: panic without a Bot, Ok at once when
\* nothing changed, else the request for a CSRF token is sent.
SaveCall(t) ==
  /\ spc[t] = "idle"
  /\ calls < MaxSaves
  /\ calls' = calls + 1
  /\ \E page \in SavePages :
       /\ spage' = [spage EXCEPT ![t] = page]
       /\ IF ~page.bot THEN
            /\ spc' = [spc EXCEPT ![t] = "panicked"]
            /\ sres' = [sres EXCEPT ![t] = "Panic"]
            /\ UNCHANGED slog
          ELSE IF ~page.changed THEN
            /\ sres' = [sres EXCEPT ![t] = "Ok"]
            /\ UNCHANGED <<spc, slog>>
          ELSE
            /\ spc' = [spc EXCEPT ![t] = "token"]
            /\ sres' = [sres EXCEPT ![t] = "none"]
            /\ slog' = Append(slog, SentAt("tokens", t))
  /\ UNCHANGED <<period, now, deadline, control>>
  /\ UNCHANGED sframe

\* get_tokens::<CsrfToken> resolves: an error is returned with ?, a token
\* goes into the edit form, which is posted.
SaveTokenResponse(t) ==
  /\ spc[t] = "token"
  /\ \/ /\ spc' = [spc EXCEPT ![t] = "idle"]
        /\ sres' = [sres EXCEPT ![t] = "Err"]
        /\ UNCHANGED slog
     \/ /\ spc' = [spc EXCEPT ![t] = "edit"]
        /\ slog' = Append(slog, SentAt("edit", t))
        /\ UNCHANGED sres
  /\ UNCHANGED <<period, now, deadline, control, calls, spage>>
  /\ UNCHANGED sframe

\* The edit POST resolves: an error is returned with ?; any body is printed
\* and the task then asks for the Mutex and ticks the Interval.  A free Mutex
\* is taken at once, and a tick whose deadline has passed completes at once.
SaveEditResponse(t) ==
  /\ spc[t] = "edit"
  /\ \/ /\ spc' = [spc EXCEPT ![t] = "idle"]
        /\ sres' = [sres EXCEPT ![t] = "Err"]
        /\ UNCHANGED <<deadline, control>>
     \/ IF control.holder # 0 THEN
          /\ control' = [control EXCEPT !.waiters = Append(@, t)]
          /\ spc' = [spc EXCEPT ![t] = "lock"]
          /\ UNCHANGED <<deadline, sres>>
        ELSE IF now >= deadline THEN
          /\ deadline' = Interval_next_deadline(now)
          /\ spc' = [spc EXCEPT ![t] = "idle"]
          /\ sres' = [sres EXCEPT ![t] = "Ok"]
          /\ UNCHANGED control
        ELSE
          /\ control' = [control EXCEPT !.holder = t]
          /\ spc' = [spc EXCEPT ![t] = "tick"]
          /\ UNCHANGED <<deadline, sres>>
  /\ UNCHANGED <<period, now, slog, calls, spage>>
  /\ UNCHANGED sframe

\* The tick of the task holding the Mutex completes; the guard is dropped and
\* save returns Ok.
SaveTick(t) ==
  /\ control.holder = t
  /\ spc[t] \in {"tick", "lock"}
  /\ now >= deadline
  /\ deadline' = Interval_next_deadline(now)
  /\ control' = Mutex_unlock
  /\ spc' = [spc EXCEPT ![t] = "idle"]
  /\ sres' = [sres EXCEPT ![t] = "Ok"]
  /\ UNCHANGED <<period, now, slog, calls, spage>>
  /\ UNCHANGED sframe

\* Time passes.
TimeAdvance ==
  /\ now < MaxTime
  /\ now' = now + 1
  /\ UNCHANGED <<period, deadline, control, spc, sres, slog, calls, spage>>
  /\ UNCHANGED sframe

SNext ==
  \/ \E t \in Tasks : SaveCall(t)
  \/ \E t \in Tasks : SaveTokenResponse(t)
  \/ \E t \in Tasks : SaveEditResponse(t)
  \/ \E t \in Tasks : SaveTick(t)
  \/ TimeAdvance

SpecSave == SInit /\ [][SNext]_vars

\* ------------------------------------------------------ parameter encoder
\* The character U+001F, one reserved atom.
UnitSeparator == "U+001F"

\* A UrlParamWriter collecting the pairs it is given; prep is what the
\* PrependAdaptors around it put before every name.
NewWriter == [prep |-> "", pairs |-> <<>>]

\* UrlParamWriter::add, through PrependAdaptor::add (format!("{p}{name}"))
\* where the writer is wrapped.
UrlParamWriter_add(w, name, value) ==
  [w EXCEPT !.pairs = Append(@, << <<w.prep \o name>>, value >>)]

\* PrependAdaptor::new losing its prefix.
PrependAdaptor_new_drops_prefix(inner, p) == inner

\* PrependAdaptor::new
PrependAdaptor_new(inner, p) == [inner EXCEPT !.prep = @ \o p]

\* A derived enum of three unit variants; the third is renamed with
\* #[wp(name = "a|b")].
Variants == {1, 2, 3}

\* NamedEnum::variant_name
variant_name(x) ==
  CASE x = 1 -> <<"ids">>
    [] x = 2 -> <<"content">>
    [] x = 3 -> <<"a", "|", "b">>

\* BitflaggedEnum::flag: 1, 2, 4, ... in the order of declaration.
BitflaggedEnum_flag(x) == 2 ^ (x - 1)

\* flag & f and flag | f, for f a single bit.
BitAnd(flag, f) == IF (flag \div f) % 2 = 1 THEN f ELSE 0
BitOr(flag, f) == IF (flag \div f) % 2 = 1 THEN flag ELSE flag + f

\* EnumSet::new, EnumSet::new_one
EnumSet_new == [flag |-> 0, values |-> <<>>]
EnumSet_new_one(x) == [flag |-> BitflaggedEnum_flag(x), values |-> <<x>>]

\* EnumSet::insert without the test of the flag.
EnumSet_insert_always_pushes(set, x) ==
  [set |-> [flag |-> BitOr(set.flag, BitflaggedEnum_flag(x)),
            values |-> Append(set.values, x)],
   ret |-> "true"]

\* EnumSet::insert: the set afterwards and the value returned.
EnumSet_insert(set, x) ==
  IF BitAnd(set.flag, BitflaggedEnum_flag(x)) # 0
    THEN [set |-> set, ret |-> "false"]
    ELSE [set |-> [flag |-> BitOr(set.flag, BitflaggedEnum_flag(x)),
                   values |-> Append(set.values, x)],
          ret |-> "true"]

\* MultiValueEncoder::new without the leading separator.
MultiValueEncoder_new_no_lead(use_unicode_separator) ==
  [s |-> <<>>,
   sep |-> IF use_unicode_separator THEN UnitSeparator ELSE "|",
   empty |-> TRUE]

\* MultiValueEncoder::new
MultiValueEncoder_new(use_unicode_separator) ==
  [s |-> IF use_unicode_separator THEN <<UnitSeparator>> ELSE <<>>,
   sep |-> IF use_unicode_separator THEN UnitSeparator ELSE "|",
   empty |-> TRUE]

\* MultiValueEncoder::push writing the separator before the first value too.
MultiValueEncoder_push_sep_always(e, str) ==
  [s |-> Append(e.s, e.sep) \o str,
   sep |-> e.sep,
   empty |-> FALSE]

\* MultiValueEncoder::push
MultiValueEncoder_push(e, str) ==
  [s |-> (IF e.empty THEN e.s ELSE Append(e.s, e.sep)) \o str,
   sep |-> e.sep,
   empty |-> FALSE]

\* values.into_iter().for_each(|s| encoder.push(s))
RECURSIVE PushAll(_, _)
PushAll(e, strs) ==
  IF strs = <<>> THEN e
  ELSE PushAll(MultiValueEncoder_push(e, Head(strs)), Tail(strs))

\* HasValue::CAUTIOUS with String as careless as the other types.
HasValue_CAUTIOUS_never(elem) == FALSE

\* HasValue::CAUTIOUS: true for String, false for a NamedEnum and for the
\* integers.
HasValue_CAUTIOUS(elem) == elem = "String"

\* encode_multivalue, for values of element type elem.
encode_multivalue(elem, strs) ==
  LET use_unicode == /\ HasValue_CAUTIOUS(elem)
                     /\ \E i \in 1..Len(strs) : "|" \in Range(strs[i])
  IN PushAll(MultiValueEncoder_new(use_unicode), strs).s

\* The flags of CategoryMembersType in the order declared, as the bitflags!
\* macro names them.
BitflagNames == << <<"file">>, <<"page">>, <<"subcat">> >>

\* WriteUrlValue::ser a bitflags! struct gets: every flag contained is pushed
\* to a MultiValueEncoder::new(false), and what it built is written.
bitflags_ser(w, name, bits) ==
  LET idx == SelectSeq([i \in 1..Len(BitflagNames) |-> i], LAMBDA i : i \in bits)
      strs == [j \in 1..Len(idx) |-> BitflagNames[idx[j]]]
  IN UrlParamWriter_add(w, name, PushAll(MultiValueEncoder_new(FALSE), strs).s)

\* The constants of LogEventsProp in the order declared, each with the name
\* the bitflags! macro gives it (lowercased, underscores removed) and the
\* bits it is made of: ten single flags and DEFAULT, the first seven
\* together.
LogEventsProp ==
  << [name |-> <<"ids">>, bits |-> {1}],
     [name |-> <<"title">>, bits |-> {2}],
     [name |-> <<"type">>, bits |-> {3}],
     [name |-> <<"user">>, bits |-> {4}],
     [name |-> <<"timestamp">>, bits |-> {5}],
     [name |-> <<"comment">>, bits |-> {6}],
     [name |-> <<"details">>, bits |-> {7}],
     [name |-> <<"parsedcomment">>, bits |-> {8}],
     [name |-> <<"tags">>, bits |-> {9}],
     [name |-> <<"userid">>, bits |-> {10}],
     [name |-> <<"default">>, bits |-> {1, 2, 3, 4, 5, 6, 7}] >>

\* The ser the bitflags! macro generates, for a struct whose constants are
\* decl: one "if self.contains(Self::NAME) { push }" for every constant of
\* the declaration, in its order, into a MultiValueEncoder::new(false).
bitflags_macro_ser(w, name, decl, bits) ==
  LET idx == SelectSeq([i \in 1..Len(decl) |-> i],
                       LAMBDA i : decl[i].bits \subseteq bits)
      strs == [j \in 1..Len(idx) |-> decl[idx[j]].name]
  IN UrlParamWriter_add(w, name, PushAll(MultiValueEncoder_new(FALSE), strs).s)

\* WriteUrlValue for bool writing the word true.
bool_ser_writes_true(w, name, b) ==
  IF b THEN UrlParamWriter_add(w, name, <<"true">>) ELSE w

\* WriteUrlValue for bool: w.write("") when the value is true, nothing
\* otherwise.
bool_ser(w, name, b) ==
  IF b THEN UrlParamWriter_add(w, name, <<>>) ELSE w

\* WriteUrlValue::ser of a field value, given the name it was forked with.
WriteUrlValue_ser(w, name, v) ==
  IF v.opt /\ ~v.some THEN w
  ELSE CASE v.ty \in {"String", "u32"} -> UrlParamWriter_add(w, name, v.items[1])
         [] v.ty = "bool" -> bool_ser(w, name, v.b)
         [] v.ty = "Vec" ->
              IF v.items = <<>> THEN w
              ELSE UrlParamWriter_add(w, name, encode_multivalue(v.elem, v.items))
         [] v.ty = "EnumSet" ->
              UrlParamWriter_add(w, name,
                encode_multivalue("NamedEnum",
                                  [i \in 1..Len(v.values) |-> variant_name(v.values[i])]))
         [] v.ty = "Bitflags" -> bitflags_ser(w, name, v.bits)
         [] v.ty = "LogEventsProp" -> bitflags_macro_ser(w, name, LogEventsProp, v.bits)
         [] v.ty = "Limit" ->
              IF v.k = "Max" THEN UrlParamWriter_add(w, name, <<"max">>)
              ELSE IF v.k = "Value" THEN UrlParamWriter_add(w, name, v.items[1])
              ELSE w
         [] v.ty = "EditSection" ->
              IF v.k = "New"
                THEN UrlParamWriter_add(UrlParamWriter_add(w, name, <<"new">>),
                                        "sectiontitle", v.items[1])
                ELSE UrlParamWriter_add(w, name, v.items[1])

\* PageSpec written under one name whatever the variant.
PageSpec_ser_always_title(w, spec) == WriteUrlValue_ser(w, "title", spec.v)

\* WriteUrlParams::ser derived for PageSpec
PageSpec_ser(w, spec) == WriteUrlValue_ser(w, spec.variant, spec.v)

\* The fields of a struct deriving WriteUrl.
Field(ident, v) == [flatten |-> FALSE, name |-> ident, override |-> "", v |-> v]
Renamed(name, v) == [flatten |-> FALSE, name |-> "", override |-> name, v |-> v]
Flat(spec) == [flatten |-> TRUE, name |-> "", override |-> "", v |-> spec]

\* What gen_fields generates for a struct with named fields; pp is its
\* prepend_all, "" when it has none.  A flattened field is written through a
\* PrependAdaptor when there is a prepend_all; another field is written under
\* its override, or else under pp and its lowercased identifier.
RECURSIVE gen_fields(_, _, _)
gen_fields(w, pp, fields) ==
  IF fields = <<>> THEN w
  ELSE LET f == Head(fields)
           w1 == IF f.flatten THEN
                   IF pp # ""
                     THEN [PageSpec_ser(PrependAdaptor_new(w, pp), f.v)
                             EXCEPT !.prep = w.prep]
                     ELSE PageSpec_ser(w, f.v)
                 ELSE WriteUrlValue_ser(
                        w, IF f.override # "" THEN f.override ELSE pp \o f.name, f.v)
       IN gen_fields(w1, pp, Tail(fields))

\* ListCategoryMembers, #[wp(prepend_all = "cm")]
ListCategoryMembers(spec, limit, ty, prop) ==
  [what |-> "ListCategoryMembers", action |-> "-", pp |-> "cm", spec |-> spec, v |-> FV("-"),
   fields |-> << Flat(spec), Field("limit", limit), Renamed("type", ty),
                 Field("prop", prop) >>]

\* Edit, with no prepend_all.  The fields not given here are None or false.
Edit(spec, section, text, tags, bot, baserevid, token) ==
  [what |-> "Edit", action |-> "edit", pp |-> "", spec |-> spec, v |-> FV("-"),
   fields |-> << Flat(spec),
                 Field("section", section),
                 Field("text", text),
                 Field("summary", FNone("String")),
                 Field("tags", tags),
                 Field("minor", FBool(FALSE)),
                 Field("notminor", FBool(FALSE)),
                 Field("bot", bot),
                 Field("baserevid", baserevid),
                 Field("basetimestamp", FNone("MwTimestamp")),
                 Field("starttimestamp", FNone("MwTimestamp")),
                 Field("recreate", FBool(FALSE)),
                 Field("createonly", FBool(FALSE)),
                 Field("nocreate", FBool(FALSE)),
                 Field("watchlist", FNone("Watchlist")),
                 Field("watchlistexpiry", FNone("MwTimestamp")),
                 Field("md5", FNone("String")),
                 Field("prependtext", FNone("String")),
                 Field("appendtext", FNone("String")),
                 Field("undo", FNone("u32")),
                 Field("undoafter", FNone("u32")),
                 Field("redirect", FBool(FALSE)),
                 Field("contentformat", FNone("String")),
                 Field("contentmodel", FNone("String")),
                 Field("token", token),
                 Field("captchaword", FNone("String")),
                 Field("captchaid", FNone("String")) >>]

\* EditBuilder::recreate(), as the built Edit shows it: the twelfth field
\* is true.
Edit_recreate(e) == [e EXCEPT !.fields[12].v = FBool(TRUE)]

\* A lone field value, as what is encoded.
Lone(v) ==
  [what |-> "value", action |-> "-", pp |-> "", spec |-> NoSpec, v |-> v, fields |-> <<>>]

\* Login, #[wp(prepend_all = "lg")]
Login(name, password, token) ==
  [what |-> "Login", action |-> "login", pp |-> "lg", spec |-> NoSpec, v |-> FV("-"),
   fields |-> << Field("name", FString(name)), Field("password", FString(password)),
                 Field("token", FString(token)) >>]

\* Main::action: the request as the Action of a Main whose format is
\* Format::Json { formatversion: 2 }.
Main_action(a) == [a EXCEPT !.what = "Main"]

\* Main written with its format before its action.
Main_ser_format_first(w, m) ==
  LET w1 == UrlParamWriter_add(w, "format", <<"json">>)
      w2 == UrlParamWriter_add(w1, "formatversion", <<"2">>)
      w3 == UrlParamWriter_add(w2, "action", <<m.action>>)
  IN gen_fields(w3, m.pp, m.fields)

\* WriteUrlParams::ser derived for Main: the action field writes the name of
\* the Action variant and then the fields of the request inside it; the
\* format field writes json and then formatversion.
Main_ser(w, m) ==
  LET w1 == UrlParamWriter_add(w, "action", <<m.action>>)
      w2 == gen_fields(w1, m.pp, m.fields)
      w3 == UrlParamWriter_add(w2, "format", <<"json">>)
  IN UrlParamWriter_add(w3, "formatversion", <<"2">>)

\* What encoding x writes into a fresh writer.
Encode(x) ==
  CASE x.what = "value" -> WriteUrlValue_ser(NewWriter, "name", x.v).pairs
    [] x.what = "Main" -> Main_ser(NewWriter, x).pairs
    [] OTHER -> gen_fields(NewWriter, x.pp, x.fields).pairs

\* The values encoded.
Strs == { <<"a">>, <<"b">>, <<"a", "|", "x">> }
Nums == { <<"1">>, <<"22">> }
SeqsUpTo(S, n) == UNION {[1..k -> S] : k \in 0..n}

\* The LogEventsProp values encoded: those holding the flags type to
\* details with any of the others, and those made of ids, title and
\* parsedcomment alone.
LogEventsProps ==
  {bits \in SUBSET (1..10) : {3, 4, 5, 6, 7} \subseteq bits \/ bits \subseteq {1, 2, 8}}

FieldValues ==
  {FString(str) : str \in Strs}
    \cup {FSome(FString(str)) : str \in Strs}
    \cup {FU32(n) : n \in Nums}
    \cup {FBool(b) : b \in BOOLEAN}
    \cup {FVec("String", l) : l \in SeqsUpTo(Strs, MaxVecLen)}
    \cup {FSome(FVec("String", l)) : l \in SeqsUpTo(Strs, 1)}
    \cup {FVec("u32", l) : l \in SeqsUpTo(Nums, MaxVecLen)}
    \cup {FBitflags(bits) : bits \in SUBSET {1, 2, 3}}
    \cup {FLogEventsProp(bits) : bits \in LogEventsProps}
    \cup {FLimit("Max", <<>>), FLimit("None", <<>>), FLimit("Value", << <<"22">> >>)}
    \cup {FEditSection("New", <<"a">>), FEditSection("Custom", <<"b">>)}
    \cup {FNone(ty) : ty \in {"String", "u32", "Vec", "EnumSet", "Limit"}}

PageSpecs ==
  {PageSpec_Title(str) : str \in Strs} \cup {PageSpec_PageId(n) : n \in Nums}

Requests ==
  {ListCategoryMembers(spec, limit, FBitflags(ty), FBitflags({}))
     : spec \in PageSpecs,
       limit \in {FLimit("Max", <<>>), FLimit("None", <<>>)},
       ty \in {{}, {2}, {1, 3}}}
    \cup
  {Edit(spec, section, text, tags, FBool(bot), FNone("u32"), FString(<<"tok", "+">>))
     : spec \in PageSpecs,
       section \in {FNone("EditSection"), FSome(FEditSection("New", <<"a">>)),
                    FSome(FEditSection("Num", <<"3">>)),
                    FSome(FEditSection("Custom", <<"b">>))},
       text \in {FNone("String"), FSome(FString(<<"a", "|", "x">>))},
       tags \in {FNone("Vec"), FSome(FVec("String", << <<"a">>, <<"b">> >>))},
       bot \in BOOLEAN}
    \cup
  {Edit_recreate(Edit(PageSpec_Title(<<"a">>), FNone("EditSection"), text, FNone("Vec"),
                      FBool(bot), baserevid, FString(<<"tok", "+">>)))
     : text \in {FNone("String"), FSome(FString(<<"a">>))},
       bot \in BOOLEAN,
       baserevid \in {FNone("u32"), FSome(FU32(<<"22">>))}}
    \cup
  {Login(<<"u">>, pw, <<"tok", "+">>) : pw \in {<<"p">>, <<"p", "&", "q">>}}

EInit ==
  /\ \E set \in {EnumSet_new} \cup {EnumSet_new_one(x) : x \in Variants} :
       /\ eset = set
       /\ ehist = set.values
  /\ eret = "none"
  /\ ein = [what |-> "none"]
  /\ eout = <<>>
  /\ eruns = 0
  /\ GIdle
  /\ LIdle
  /\ SIdle
  /\ DIdle
  /\ BIdle
  /\ QIdle
  /\ MIdle
  /\ CIdle
  /\ VIdle
  /\ PIdle

\* set.insert(x), while the set is being built.
EInsert ==
  /\ ein.what = "none"
  /\ Len(ehist) < MaxInserts
  /\ \E x \in Variants :
       LET r == EnumSet_insert(eset, x) IN
       /\ eset' = r.set
       /\ eret' = r.ret
       /\ ehist' = Append(ehist, x)
  /\ UNCHANGED <<ein, eout, eruns>>
  /\ UNCHANGED eframe

\* A field value, or the EnumSet as it stands, is written under a name.
ESerValue ==
  /\ ein.what = "none"
  /\ \E v \in FieldValues \cup {FEnumSet(eset.values), FSome(FEnumSet(eset.values))} :
       /\ ein' = Lone(v)
       /\ eout' = Encode(Lone(v))
  /\ eruns' = 1
  /\ UNCHANGED <<eset, ehist, eret>>
  /\ UNCHANGED eframe

\* WriteUrlParams::ser of a request.
ESerRequest ==
  /\ ein.what = "none"
  /\ \E r \in Requests :
       /\ ein' = r
       /\ eout' = Encode(r)
  /\ eruns' = 1
  /\ UNCHANGED <<eset, ehist, eret>>
  /\ UNCHANGED eframe

\* api::mkurl, or Main::build_form, of a Main made of an Edit or a Login.
EMkurl ==
  /\ ein.what = "none"
  /\ \E r \in {x \in Requests : x.action # "-"} :
       /\ ein' = Main_action(r)
       /\ eout' = Encode(Main_action(r))
  /\ eruns' = 1
  /\ UNCHANGED <<eset, ehist, eret>>
  /\ UNCHANGED eframe

\* The value that was encoded is encoded once more.
EEncodeAgain ==
  /\ ein.what # "none"
  /\ eruns < MaxEncodes
  /\ eout' = Encode(ein)
  /\ eruns' = eruns + 1
  /\ UNCHANGED <<eset, ehist, eret, ein>>
  /\ UNCHANGED eframe

ENext ==
  \/ EInsert
  \/ ESerValue
  \/ ESerRequest
  \/ EMkurl
  \/ EEncodeAgain

SpecEnc == EInit /\ [][ENext]_vars

\* --------------------------------------------- EnumSet and its conversions
\* flag |= x.flag() over the items, from Default::default().
RECURSIVE FlagsOr(_, _)
FlagsOr(flag, items) ==
  IF items = <<>> THEN flag
  ELSE FlagsOr(BitOr(flag, BitflaggedEnum_flag(Head(items))), Tail(items))

\* FromIterator for EnumSet: every item is ORed into the flag by inspect
\* and collected into the values.
EnumSet_from_iter(items) == [flag |-> FlagsOr(0, items), values |-> items]

\* From<&[T]> for EnumSet: x.iter().cloned().collect()
EnumSet_from_slice(x) == EnumSet_from_iter(x)

\* From<[T; LEN]> for EnumSet: the flags are ORed in a loop and the array
\* becomes the values.
EnumSet_from_array(arr) == [flag |-> FlagsOr(0, arr), values |-> arr]

\* The iterators, slices and arrays converted.
Items == UNION {[1..k -> Variants] : k \in 0..MaxIterLen}

CInit ==
  /\ cset = EnumSet_new
  /\ cop = "new"
  /\ GIdle
  /\ LIdle
  /\ SIdle
  /\ EIdle
  /\ DIdle
  /\ BIdle
  /\ QIdle
  /\ MIdle
  /\ VIdle
  /\ PIdle

\* EnumSet::new()
C_new ==
  /\ cset' = EnumSet_new
  /\ cop' = "new"
  /\ UNCHANGED cframe

\* EnumSet::new_one(x), also From<T>
C_new_one ==
  /\ \E x \in Variants : cset' = EnumSet_new_one(x)
  /\ cop' = "new_one"
  /\ UNCHANGED cframe

\* set.insert(x)
C_insert ==
  /\ Len(cset.values) <= MaxSetLen
  /\ \E x \in Variants : cset' = EnumSet_insert(cset, x).set
  /\ cop' = "insert"
  /\ UNCHANGED cframe

\* iter.collect::<EnumSet<_>>()
C_from_iter ==
  /\ \E items \in Items : cset' = EnumSet_from_iter(items)
  /\ cop' = "from_iter"
  /\ UNCHANGED cframe

\* EnumSet::from(&slice[..])
C_from_slice ==
  /\ \E x \in Items : cset' = EnumSet_from_slice(x)
  /\ cop' = "from_slice"
  /\ UNCHANGED cframe

\* EnumSet::from([..])
C_from_array ==
  /\ \E arr \in Items : cset' = EnumSet_from_array(arr)
  /\ cop' = "from_array"
  /\ UNCHANGED cframe

CNext ==
  \/ C_new
  \/ C_new_one
  \/ C_insert
  \/ C_from_iter
  \/ C_from_slice
  \/ C_from_array

SpecSet == CInit /\ [][CNext]_vars

\* ------------------------------------------------------- encode_multivalue
\* The strings of the lists encoded: empty, plain, with a pipe, and with
\* the unit separator.
Texts ==
  { <<>>, <<"a">>, <<"|">>, <<"a", "|", "x">>, <<UnitSeparator>>, <<"a", UnitSeparator>> }

VInit ==
  /\ vin \in UNION {[1..k -> Texts] : k \in 0..MaxListLen}
  /\ vout = [done |-> FALSE, s |-> <<>>]
  /\ GIdle
  /\ LIdle
  /\ SIdle
  /\ EIdle
  /\ DIdle
  /\ BIdle
  /\ QIdle
  /\ MIdle
  /\ CIdle
  /\ PIdle

\* encode_multivalue(&list) for a list of Strings.
V_encode_multivalue ==
  /\ ~vout.done
  /\ vout' = [done |-> TRUE, s |-> encode_multivalue("String", vin)]
  /\ UNCHANGED vin
  /\ UNCHANGED vframe

VNext == V_encode_multivalue

SpecMulti == VInit /\ [][VNext]_vars

\* ------------------------------------------------ recent-changes patroller
\* format of an MwTimestamp: RFC 3339 with SecondsFormat::Secs, the half
\* second dropped.
MwTimestamp_format(t) == <<"T", ToString(t \div 2), "Z">>

\* RecentChangesGenerator::create_request: Main::query of the ListRc, the
\* prop and ty given to the patroller being empty.
RecentChangesGenerator_create_request(rc) ==
  << << <<"action">>, <<"query">> >>,
     << <<"list">>, <<"recentchanges">> >>,
     << <<"rcstart">>, MwTimestamp_format(rc.start) >>,
     << <<"rcend">>, MwTimestamp_format(rc.end) >>,
     << <<"rclimit">>, <<"max">> >>,
     << <<"rcprop">>, <<>> >>,
     << <<"rcty">>, <<>> >>,
     << <<"format">>, <<"json">> >>,
     << <<"formatversion">>, <<"2">> >> >>

\* What one poll gives back: the patroller or stream afterwards, the result
\* returned, the queries sent, the ListRc of the rounds started, a panic.
Polled(x, r, sent, rounds, panic) ==
  [x |-> x, ret |-> r, sent |-> sent, rounds |-> rounds, panic |-> panic]

\* GeneratorStream::poll_next of the inner stream s of RecentChangesGenerator.
RcStream_poll_next(s) ==
  LET send(q) == Polled([s EXCEPT !.state = StFut,
                                  !.fut = [st |-> "pending", res |-> NoRes]],
                        RetPending, <<q>>, <<>>, "")
      yield(x, r, st) == Polled([x EXCEPT !.state = st], r, <<>>, <<>>, "")
      main == RecentChangesGenerator_create_request(s.rc)
  IN
  CASE s.state.tag = "Init" -> send(mkurl(main))
    [] s.state.tag = "Cont" ->
         LET u == mkurl_with_ext(main, s.state.cont) IN
         IF u.ok THEN send(u.q)
         ELSE yield(s, RetErr("SerdeUrlEncoded"), tryit_state("SerdeUrlEncoded"))
    [] s.state.tag = "Values" ->
         IF s.state.v = <<>> THEN Polled(s, RetNone, <<>>, <<>>, "must always have value")
         ELSE yield(s, RetItem(Last(s.state.v)),
                    State_values(Front(s.state.v), s.state.cont))
    [] s.state.tag = "Fut" ->
         IF s.fut.st = "pending" THEN Polled(s, RetPending, <<>>, <<>>, "")
         ELSE IF s.fut.st = "completed"
           THEN Polled(s, RetNone, <<>>, <<>>, "async block resumed after completion")
         ELSE LET res == s.fut.res
                  done == [s EXCEPT !.fut = [st |-> "none", res |-> NoRes]]
              IN IF res.k = "err" THEN yield(done, RetErr(res.e), tryit_state(res.e))
                 ELSE IF res.items # <<>>
                   THEN yield(done, RetItem(Last(res.items)),
                              State_values(Front(res.items), res.cont))
                 ELSE IF res.cont.kind # "absent"
                   THEN Polled([s EXCEPT !.fut.st = "completed"], RetNone, <<>>, <<>>,
                               "Cannot continue without return value")
                 ELSE yield([s EXCEPT !.fut.st = "completed"], RetEnd, s.state)
    [] OTHER -> yield(s, RetEnd, s.state)

\* The Sleep arm keeping the old prev_time.
Patroller_round_keeps_prev(prev_time, clock) ==
  LET timestamp == Patroller_now(clock) IN
  [rc |-> [start |-> timestamp, end |-> prev_time], prev_time |-> prev_time]

\* The Sleep arm once the sleep is over: the ListRc of the new round, from
\* now() back to prev_time, and the prev_time it leaves.
Patroller_round(prev_time, clock) ==
  LET timestamp == Patroller_now(clock) IN
  [rc |-> [start |-> timestamp, end |-> prev_time], prev_time |-> timestamp]

\* The Stream arm leaving errored as it is.
Patroller_errored_never(errored, r) == errored

\* The Stream arm: errored is set when the inner stream returns an Err.
Patroller_errored(errored, r) == IF r.k = "err" THEN TRUE ELSE errored

\* The Sleep arm with the sleep over: a new generator is made and stored as
\* State::Stream, and poll_next is called again, which polls the new
\* stream: its request is sent and its future is pending.
Patroller_start_round(pt, clock) ==
  LET r == Patroller_round(pt.prev_time, clock)
      i == RcStream_poll_next(Patroller_Stream(r.rc).stream)
  IN Polled([pt EXCEPT !.prev_time = r.prev_time,
                       !.state = [Patroller_Stream(r.rc) EXCEPT !.stream = i.x]],
            i.ret, i.sent, <<r.rc>>, i.panic)

\* RecentChangesPatroller::poll_next
Patroller_poll_next(pt, clock) ==
  IF pt.errored THEN Polled(pt, RetEnd, <<>>, <<>>, "")
  ELSE IF pt.state.tag = "Sleep" THEN
    IF clock < pt.state.deadline THEN Polled(pt, RetPending, <<>>, <<>>, "")
    ELSE Patroller_start_round(pt, clock)
  ELSE
    LET i == RcStream_poll_next(pt.state.stream)
        polled == [pt EXCEPT !.state.stream = i.x]
    IN IF i.panic # "" THEN Polled(polled, RetNone, <<>>, <<>>, i.panic)
       ELSE IF i.ret.k = "pending" THEN Polled(polled, RetPending, i.sent, <<>>, "")
       ELSE IF i.ret.k = "end" THEN
         LET asleep == [pt EXCEPT !.state = Patroller_Sleep(clock, pt.interval)] IN
         IF clock < asleep.state.deadline THEN Polled(asleep, RetPending, <<>>, <<>>, "")
         ELSE Patroller_start_round(asleep, clock)
       ELSE Polled([polled EXCEPT !.errored = Patroller_errored(pt.errored, i.ret)],
                   i.ret, <<>>, <<>>, "")

\* The continue members the server answers a recentchanges query with:
\* none, an object, a bare string.
PatrolConts ==
  {NoCont, ContObj(<< << <<"rccontinue">>, <<"10", "|", "7">> >> >>, TRUE), ContStr}

\* The intervals a patroller is made with, in half seconds.
PatrolIntervals == {0, 1, 2}

PInit ==
  /\ pclock \in {2, 3}
  /\ \E interval \in PatrolIntervals :
       patroller = RecentChangesPatroller_new(pclock, interval)
  /\ pcreated = Patroller_now(pclock)
  /\ prounds = <<>>
  /\ psent = <<>>
  /\ presp = 0
  /\ pout = <<>>
  /\ ppanicked = ""
  /\ GIdle
  /\ LIdle
  /\ SIdle
  /\ EIdle
  /\ DIdle
  /\ BIdle
  /\ QIdle
  /\ MIdle
  /\ CIdle
  /\ VIdle

\* The consumer polls the patroller.
PatrolPoll ==
  /\ ppanicked = ""
  /\ Cardinality({i \in 1..Len(pout) : pout[i].k = "end"}) < MaxEnds
  /\ LET r == Patroller_poll_next(patroller, pclock) IN
       /\ Len(prounds) + Len(r.rounds) <= MaxRounds
       /\ patroller' = r.x
       /\ prounds' = prounds \o r.rounds
       /\ psent' = psent \o [k \in 1..Len(r.sent) |->
                               [round |-> Len(prounds') , q |-> r.sent[k]]]
       /\ ppanicked' = r.panic
       /\ pout' = IF r.panic = "" /\ r.ret.k # "pending" THEN Append(pout, r.ret) ELSE pout
  /\ UNCHANGED <<pclock, pcreated, presp>>
  /\ UNCHANGED pframe

\* The transport answers the request the inner stream has in flight.
PatrolRespond ==
  /\ ppanicked = ""
  /\ patroller.state.tag = "Stream"
  /\ patroller.state.stream.fut.st = "pending"
  /\ presp < MaxPages
  /\ \E res \in {ResErr(e) : e \in SendErrors}
              \cup {ResPage([i \in 1..n |-> i], c, TRUE) :
                      n \in 0..1, c \in PatrolConts} :
       patroller' = [patroller EXCEPT !.state.stream.fut = [st |-> "ready", res |-> res]]
  /\ presp' = presp + 1
  /\ UNCHANGED <<pclock, pcreated, prounds, psent, pout, ppanicked>>
  /\ UNCHANGED pframe

\* Half a second passes.
PatrolTick ==
  /\ pclock < MaxClock
  /\ pclock' = pclock + 1
  /\ UNCHANGED <<patroller, pcreated, prounds, psent, presp, pout, ppanicked>>
  /\ UNCHANGED pframe

PNext ==
  \/ PatrolPoll
  \/ PatrolRespond
  \/ PatrolTick

SpecPatrol == PInit /\ [][PNext]_vars

\* ------------------------------------------------------------ EditBuilder
\* The setters the builder_fns! macro generates, with the values given.
BuilderFns ==
  { <<"text", FSome(FString(<<"a">>))>>,
    <<"tags", FSome(FVec("String", << <<"a">>, <<"b">> >>))>>,
    <<"bot", FBool(TRUE)>>,
    <<"baserevid", FSome(FU32(<<"22">>))>>,
    <<"token", FSome(FString(<<"tok", "+">>))>> }

\* EditBuilder::try_build: Some(Edit) when spec and token are both Some, the
\* other fields moved over as they are; None otherwise.
EditBuilder_try_build(b) ==
  IF b.spec # NoSpec /\ b.token.some
  THEN [k |-> "Some", e |-> "-",
        edit |-> Edit(b.spec, b.section, b.text, b.tags, b.bot, b.baserevid,
                      [b.token EXCEPT !.opt = FALSE])]
  ELSE [k |-> "None", e |-> "-", edit |-> [what |-> "none"]]

\* EditBuilder::build: try_build().expect(..), which panics on None.
EditBuilder_build(b) ==
  LET r == EditBuilder_try_build(b) IN
  IF r.k = "Some" THEN [r EXCEPT !.k = "Edit"]
  ELSE [k |-> "Panic", e |-> "expected page spec and token", edit |-> [what |-> "none"]]

BInit ==
  /\ builder = EditBuilder_new
  /\ bres = NoBuild
  /\ GIdle
  /\ LIdle
  /\ SIdle
  /\ EIdle
  /\ DIdle
  /\ QIdle
  /\ MIdle
  /\ CIdle
  /\ VIdle
  /\ PIdle

\* EditBuilder::title
B_title ==
  /\ bres.k = "none"
  /\ \E t \in {<<"a">>, <<"a", "|", "x">>} :
       builder' = [builder EXCEPT !.spec = PageSpec_Title(t)]
  /\ UNCHANGED bres
  /\ UNCHANGED bframe

\* EditBuilder::page_id
B_page_id ==
  /\ bres.k = "none"
  /\ builder' = [builder EXCEPT !.spec = PageSpec_PageId(<<"22">>)]
  /\ UNCHANGED bres
  /\ UNCHANGED bframe

\* EditBuilder::new_section, section_id, section_custom
B_section ==
  /\ bres.k = "none"
  /\ \E sec \in {FEditSection("New", <<"a">>), FEditSection("Num", <<"3">>),
                 FEditSection("Custom", <<"b">>)} :
       builder' = [builder EXCEPT !.section = FSome(sec)]
  /\ UNCHANGED bres
  /\ UNCHANGED bframe

\* A setter generated by builder_fns!
B_builder_fn ==
  /\ bres.k = "none"
  /\ \E f \in BuilderFns : builder' = [builder EXCEPT ![f[1]] = f[2]]
  /\ UNCHANGED bres
  /\ UNCHANGED bframe

\* EditBuilder::try_build, which takes the builder by value.
B_try_build ==
  /\ bres.k = "none"
  /\ bres' = EditBuilder_try_build(builder)
  /\ UNCHANGED builder
  /\ UNCHANGED bframe

\* EditBuilder::build
B_build ==
  /\ bres.k = "none"
  /\ bres' = EditBuilder_build(builder)
  /\ UNCHANGED builder
  /\ UNCHANGED bframe

BNext ==
  \/ B_title
  \/ B_page_id
  \/ B_section
  \/ B_builder_fn
  \/ B_try_build
  \/ B_build

SpecBuilder == BInit /\ [][BNext]_vars

\* ------------------------------------------- one request and its response
\* The operations that send one request and read its response.
QPaths == {"get_d", "fetch", "fetch_content", "poll_next", "login_", "save"}

Datas ==
  {NoData} \cup [decodes : {TRUE}, pages : 0..MaxRespPages, revisions : 0..MaxRevs]

Responses ==
  {RFail, RNotJson, RJson("array", ErrAbsent, NoData)}
    \cup {RJson("object", e, d) : e \in ErrorMembers, d \in Datas}

\* send_and_report_err handing every body on as data.
send_and_report_err_ignores_error(r) ==
  IF r.k \in {"fail", "notjson"} THEN QErr("Request") ELSE QOk(r.data)

\* RequestBuilderExt::send_and_report_err: send and json fail with a reqwest
\* error; a body with an error member gives Error::MediaWiki holding what
\* v.take() took out of it; any other body is handed on.
send_and_report_err(r) ==
  IF r.k \in {"fail", "notjson"} THEN QErr("Request")
  ELSE IF r.top = "object" /\ r.error.kind # "absent" THEN QMediaWiki(r.error)
  ELSE QOk(r.data)

\* RequestBuilderExt::send_parse
send_parse(r) ==
  LET v == send_and_report_err(r) IN
  IF v.k # "Ok" THEN v
  ELSE IF v.v.decodes THEN v ELSE QErr("SerdeJson")

\* api::fetch after its request was answered.
fetch(r) ==
  LET res == send_and_report_err(r) IN
  IF res.k # "Ok" THEN res
  ELSE IF ~res.v.decodes THEN QPanic("called Result::unwrap() on an Err value")
  ELSE IF res.v.pages = 0 THEN QPanic("page to exist")
  ELSE IF res.v.pages > 1 THEN QPanic("assertion failed: pages.next().is_none()")
  ELSE IF res.v.revisions # 1 THEN QPanic("called Result::unwrap() on an Err value")
  ELSE res

\* Client::fetch_content after its request was answered.
fetch_content(r) ==
  LET x == send_parse(r) IN
  IF x.k # "Ok" THEN x
  ELSE IF x.v.pages = 0 THEN QErr("CustomStatic: not enough pages")
  ELSE IF x.v.revisions = 0 THEN QErr("CustomStatic: not enough revisions")
  ELSE x

\* The edit POST of Page::save: send().await?.text().await?, the text is
\* printed with dbg! and Ok(()) is returned once the Interval has ticked.
Page_save_edit(r) ==
  IF r.k = "fail" THEN QErr("Request") ELSE QOk(NoData)

QInit ==
  /\ qpath \in QPaths
  /\ qpc = "start"
  /\ qresp = NoResp
  /\ qout = NoOut
  /\ GIdle
  /\ LIdle
  /\ SIdle
  /\ EIdle
  /\ DIdle
  /\ BIdle
  /\ MIdle
  /\ CIdle
  /\ VIdle
  /\ PIdle

\* The request is sent and the operation awaits the response.
QSend ==
  /\ qpc = "start"
  /\ qpc' = "sent"
  /\ UNCHANGED <<qpath, qresp, qout>>
  /\ UNCHANGED qframe

\* The transport answers.
QRespond ==
  /\ qpc = "sent"
  /\ qresp' \in Responses
  /\ qpc' = "ready"
  /\ UNCHANGED <<qpath, qout>>
  /\ UNCHANGED qframe

\* Client::get_d: send_parse and ?.
Q_get_d ==
  /\ qpath = "get_d" /\ qpc = "ready"
  /\ qout' = send_parse(qresp)
  /\ qpc' = "done"
  /\ UNCHANGED <<qpath, qresp>>
  /\ UNCHANGED qframe

\* api::fetch
Q_fetch ==
  /\ qpath = "fetch" /\ qpc = "ready"
  /\ qout' = fetch(qresp)
  /\ qpc' = "done"
  /\ UNCHANGED <<qpath, qresp>>
  /\ UNCHANGED qframe

\* Client::fetch_content
Q_fetch_content ==
  /\ qpath = "fetch_content" /\ qpc = "ready"
  /\ qout' = fetch_content(qresp)
  /\ qpc' = "done"
  /\ UNCHANGED <<qpath, qresp>>
  /\ UNCHANGED qframe

\* GeneratorStream::poll_next, State::Fut: tryit!(res) yields the Err of
\* send_parse; a decoded page goes on to untangle_response.
Q_poll_next ==
  /\ qpath = "poll_next" /\ qpc = "ready"
  /\ qout' = send_parse(qresp)
  /\ qpc' = "done"
  /\ UNCHANGED <<qpath, qresp>>
  /\ UNCHANGED qframe

\* login_ and SiteBuilder::build at the login POST: send_and_report_err and
\* ?; a body handed on is then looked at for login.result.
Q_login_ ==
  /\ qpath = "login_" /\ qpc = "ready"
  /\ qout' = send_and_report_err(qresp)
  /\ qpc' = "done"
  /\ UNCHANGED <<qpath, qresp>>
  /\ UNCHANGED qframe

\* Page::save from the edit POST on.
Q_save ==
  /\ qpath = "save" /\ qpc = "ready"
  /\ qout' = Page_save_edit(qresp)
  /\ qpc' = "done"
  /\ UNCHANGED <<qpath, qresp>>
  /\ UNCHANGED qframe

QNext ==
  \/ QSend
  \/ QRespond
  \/ Q_get_d
  \/ Q_fetch
  \/ Q_fetch_content
  \/ Q_poll_next
  \/ Q_login_
  \/ Q_save

SpecQuery == QInit /\ [][QNext]_vars

\* --------------------------------------- several streams on one Session
\* What the server holds for a search: its pages, and whether the request
\* for the page after the last one is answered with an error.
ServerPages(srsearch) ==
  IF srsearch = <<"a", " ", "b">> THEN [pages |-> << <<1, 2>>, <<3>> >>, fails |-> FALSE]
  ELSE IF srsearch = <<"x", "&", "y", "|", "z">> THEN [pages |-> << <<4, 5>> >>, fails |-> TRUE]
  ELSE [pages |-> <<>>, fails |-> TRUE]

\* The value of a parameter of a parsed query, or a default.
QueryValue(pairs, name, default) ==
  IF \E i \in 1..Len(pairs) : pairs[i][1] = <<name>>
    THEN pairs[CHOOSE i \in 1..Len(pairs) : pairs[i][1] = <<name>>][2]
    ELSE default

\* The server: the page of the search named by srsearch at the position
\* named by sroffset, with a continue member while pages remain.
Serve(q) ==
  LET pairs == ParseQuery(q)
      data == ServerPages(QueryValue(pairs, "srsearch", <<>>))
      off == QueryValue(pairs, "sroffset", <<"1">>)
      n == IF \E k \in 1..Len(data.pages) : <<ToString(k)>> = off
             THEN CHOOSE k \in 1..Len(data.pages) : <<ToString(k)>> = off
             ELSE 0
  IN IF n = 0 THEN ResErr("MediaWiki")
     ELSE IF n < Len(data.pages) \/ data.fails
       THEN ResPage(data.pages[n],
                    ContObj(<< << <<"sroffset">>, <<ToString(n + 1)>> >>,
                               << <<"continue">>, <<"-", "|", "|">> >> >>, TRUE),
                    TRUE)
       ELSE ResPage(data.pages[n], NoCont, TRUE)

\* The StateProj::Cont arm reading the token of another stream.
StateProj_Cont_of_first(ss, g) == ss[1].state.cont

\* StateProj::Cont(v): the token held by the stream's own state.
StateProj_Cont(ss, g) == ss[g].state.cont

\* client().get(url) taking the Session's edit gate.
WikiGenerator_client_get_takes_gate(sess, url) ==
  [sess |-> [sess EXCEPT !.gate.holder = 1], q |-> url]

\* this.generator.client().get(url).send_parse(): a request made through
\* the generator's Site, which is only read.
WikiGenerator_client_get(sess, url) == [sess |-> sess, q |-> url]

\* The tail of poll_next: the request is sent and its future stored.
Stream_send(sess, s, url) ==
  LET r == WikiGenerator_client_get(sess, url) IN
  [sess |-> r.sess,
   stream |-> [s EXCEPT !.state = StFut, !.fut = [st |-> "pending", q |-> r.q, res |-> NoRes]]]

\* poll_next returning Ready(r) with the state set to st.
Stream_yield(sess, s, r, st) ==
  [sess |-> sess, stream |-> [s EXCEPT !.state = st, !.out = Append(@, r)]]

Stream_panic(sess, s, msg) == [sess |-> sess, stream |-> [s EXCEPT !.panicked = msg]]

\* GeneratorStream::poll_next of stream g.
poll_next(sess, ss, g) ==
  LET s == ss[g] IN
  CASE s.state.tag = "Init" -> Stream_send(sess, s, mkurl(create_request(s.search)))
    [] s.state.tag = "Cont" ->
         LET u == mkurl_with_ext(create_request(s.search), StateProj_Cont(ss, g)) IN
         IF u.ok THEN Stream_send(sess, s, u.q)
         ELSE Stream_yield(sess, s, RetErr("SerdeUrlEncoded"), tryit_state("SerdeUrlEncoded"))
    [] s.state.tag = "Values" ->
         IF s.state.v = <<>> THEN Stream_panic(sess, s, "must always have value")
         ELSE Stream_yield(sess, s, RetItem(Last(s.state.v)),
                           State_values(Front(s.state.v), s.state.cont))
    [] s.state.tag = "Fut" ->
         IF s.fut.st = "pending" THEN [sess |-> sess, stream |-> s]
         ELSE IF s.fut.st = "completed"
           THEN Stream_panic(sess, s, "async block resumed after completion")
         ELSE LET res == s.fut.res
                  done == [s EXCEPT !.fut = NoFut]
              IN IF res.k = "err"
                   THEN Stream_yield(sess, done, RetErr(res.e), tryit_state(res.e))
                 ELSE IF ~res.untangle_ok
                   THEN Stream_yield(sess, done, RetErr("Untangle"), tryit_state("Untangle"))
                 ELSE IF res.items # <<>>
                   THEN Stream_yield(sess, done, RetItem(Last(res.items)),
                                     State_values(Front(res.items), res.cont))
                 ELSE IF res.cont.kind # "absent"
                   THEN Stream_panic(sess, [s EXCEPT !.fut.st = "completed"],
                                     "Cannot continue without return value")
                 ELSE Stream_yield(sess, [s EXCEPT !.fut.st = "completed"], RetEnd, s.state)
    [] OTHER -> Stream_yield(sess, s, RetEnd, s.state)

\* The stream has returned end-of-stream.
Ended(s) == s.out # <<>> /\ Last(s.out).k = "end"

\* The Sessions streams are made from.
Sessions ==
  [url : {"https://a.example/w/api.php", "https://b.example/w/api.php"},
   auth : {"anonymous", "bot"},
   gate : {GateFree}]

MInit ==
  /\ session \in Sessions
  /\ streams \in [Streams -> {Stream_new(x) : x \in Searches}]
  /\ GIdle
  /\ LIdle
  /\ SIdle
  /\ EIdle
  /\ DIdle
  /\ BIdle
  /\ QIdle
  /\ CIdle
  /\ VIdle
  /\ PIdle

\* The caller polls stream g.
StreamPoll(g) ==
  /\ streams[g].alive
  /\ streams[g].panicked = ""
  /\ ~Ended(streams[g])
  /\ LET r == poll_next(session, streams, g) IN
       /\ streams' = [streams EXCEPT ![g] = r.stream]
       /\ session' = r.sess
  /\ UNCHANGED mframe

\* The transport answers the request stream g has in flight.
StreamRespond(g) ==
  /\ streams[g].alive
  /\ streams[g].fut.st = "pending"
  /\ streams' = [streams EXCEPT ![g].fut.st = "ready", ![g].fut.res = Serve(streams[g].fut.q)]
  /\ UNCHANGED session
  /\ UNCHANGED mframe

\* The caller drops stream g: its state, its future with the request in
\* flight, and its generator with the generator's copy of the Site go.
StreamDrop(g) ==
  /\ streams[g].alive
  /\ streams' = [streams EXCEPT ![g].alive = FALSE, ![g].fut = NoFut]
  /\ UNCHANGED session
  /\ UNCHANGED mframe

MNext ==
  \/ \E g \in Streams : StreamPoll(g)
  \/ \E g \in Streams : StreamRespond(g)
  \/ \E g \in Streams : StreamDrop(g)

SpecStreams == MInit /\ [][MNext]_vars

\* ---------------------------------------------- the derive: field options
\* What may stand inside #[wp(..)] on a field: flatten, name = "..", or
\* anything else.
Metas == {[k |-> "flatten"], [k |-> "name", s |-> "type"], [k |-> "other"]}

\* An attribute of a field: #[doc ..] (not ours), #[wp] alone, #[wp(..)].
Attrs ==
  {[path |-> "doc"], [path |-> "wp", list |-> FALSE]}
    \cup {[path |-> "wp", list |-> TRUE, nested |-> n] : n \in SeqsUpTo(Metas, MaxMetas)}

Ok(v) == [ok |-> TRUE, v |-> v]
Err(msg) == [ok |-> FALSE, msg |-> msg]

\* FieldOptions::verify.
FieldOptions_verify(r) ==
  IF r.flatten /\ r.override_name # "None"
  THEN Err("flatten and name are mutually exclusive")
  ELSE Ok(r)

\* The loop of FieldOptions::parse over the nested metas.
RECURSIVE FieldOptions_parse_nested(_, _)
FieldOptions_parse_nested(r, nested) ==
  IF nested = <<>> THEN Ok(r)
  ELSE LET m == Head(nested) IN
       CASE m.k = "name" ->
              FieldOptions_parse_nested([r EXCEPT !.override_name = m.s], Tail(nested))
         [] m.k = "flatten" ->
              FieldOptions_parse_nested([r EXCEPT !.flatten = TRUE], Tail(nested))
         [] OTHER -> Err("invalid meta")

\* FieldOptions::parse: every call starts from FieldOptions::default().
FieldOptions_parse(meta) ==
  IF ~meta.list THEN Err("invalid options")
  ELSE LET r == FieldOptions_parse_nested(FieldOptions_default, meta.nested) IN
       IF r.ok THEN FieldOptions_verify(r.v) ELSE r

DInit ==
  /\ dattrs \in SeqsUpTo(Attrs, MaxAttrs)
  /\ dnext = 0
  /\ dopts = FieldOptions_default
  /\ dcode = [k |-> "none"]
  /\ GIdle
  /\ LIdle
  /\ SIdle
  /\ EIdle
  /\ BIdle
  /\ QIdle
  /\ MIdle
  /\ CIdle
  /\ VIdle
  /\ PIdle

\* One turn of the loop over the field's attributes in gen_fields.
DAttr ==
  /\ dcode.k = "none"
  /\ dnext < Len(dattrs)
  /\ dnext' = dnext + 1
  /\ LET a == dattrs[dnext + 1] IN
       IF a.path # "wp"
       THEN UNCHANGED <<dopts, dcode>>
       ELSE LET r == FieldOptions_parse(a) IN
            IF r.ok
            THEN dopts' = r.v /\ UNCHANGED dcode
            ELSE dcode' = [k |-> "compile_error", msg |-> r.msg] /\ UNCHANGED dopts
  /\ UNCHANGED dattrs
  /\ UNCHANGED dframe

\* After the loop: the match on the options that picks the generated code.
DEmit ==
  /\ dcode.k = "none"
  /\ dnext = Len(dattrs)
  /\ dcode' = IF dopts.flatten THEN [k |-> "Flat"]
              ELSE IF dopts.override_name # "None"
                   THEN [k |-> "Renamed", name |-> dopts.override_name]
                   ELSE [k |-> "Field"]
  /\ UNCHANGED <<dattrs, dnext, dopts>>
  /\ UNCHANGED dframe

DNext ==
  \/ DAttr
  \/ DEmit

SpecDerive == DInit /\ [][DNext]_vars

\* ================================================================ claims
IsPrefix(a, b) == Len(a) <= Len(b) /\ a = SubSeq(b, 1, Len(a))
Distinct(s) == Cardinality(Range(s)) = Len(s)
ErrIndex == CHOOSE i \in 1..Len(out) : out[i].k = "err"
FormField(form, name) ==
  LET idx == {i \in 1..Len(form) : form[i][1] = name}
  IN form[CHOOSE i \in idx : \A j \in idx : i <= j][2]

\* Every page delivered so far decoded and holds at least one item.
NonEmptyPages ==
  \A i \in 1..Len(pages) :
    pages[i].k = "page" /\ pages[i].untangle_ok /\ pages[i].items # <<>>

\* A page with no items and a token that serializes.
EmptyPageWithToken(p) ==
  /\ p.k = "page" /\ p.untangle_ok /\ p.items = <<>>
  /\ p.cont.kind = "obj" /\ p.cont.flat

\* C1: the items yielded so far are the concatenation of the pages in the
\* order fetched, each page in the order the server listed it: at every
\* moment the output is a prefix of that concatenation.
C1_InOrderConcatenation == IsPrefix(OutItems, PageItems)

\* C2: with non-empty pages and no error, every item is yielded exactly
\* once: nothing is yielded twice or invented; the stream ends only after a
\* page without token, with every item of every page yielded; once such a
\* page is drained the state is Done; and no request follows that page.
C2_ExactlyOnceThenEnd ==
  (NonEmptyPages /\ Count("err") = 0) =>
    /\ panicked = ""
    /\ Distinct(OutItems)
    /\ Range(OutItems) \subseteq Range(PageItems)
    /\ Count("end") > 0 =>
         /\ pages # <<>> /\ Last(pages).cont.kind = "absent"
         /\ Range(OutItems) = Range(PageItems)
         /\ Len(OutItems) = Len(PageItems)
    /\ (pages # <<>> /\ Last(pages).cont.kind = "absent") =>
         /\ Len(requests) = Len(pages)
         /\ Len(OutItems) = Len(PageItems) => state = StDone
C2_Witness ==
  /\ NonEmptyPages /\ Count("err") = 0
  /\ Len(pages) >= 2 /\ Len(OutItems) >= 3
  /\ Count("end") > 0

\* C3: a page with no items and a token is neither the end nor an error:
\* once poll_next has taken such a page, the process has not aborted, and if
\* it is the latest page the stream has not returned end-of-stream or Err.
C3_EmptyPageContinues ==
  \A i \in 1..Len(pages) :
    (EmptyPageWithToken(pages[i]) /\ (i < Len(pages) \/ fut.st # "ready")) =>
      /\ panicked = ""
      /\ i = Len(pages) => ret.k \notin {"end", "err"}

\* C4: requests are only ever added at the end, one at a time, and each
\* request, read back by the server when it is sent, is the pairs of the
\* template, followed (from the second request on) by the members of the
\* continue value of the response received just before it.
C4_RequestPairs ==
  [][requests' # requests =>
       /\ Front(requests') = requests
       /\ Len(pages) = Len(requests)
       /\ ParseQuery(Last(requests')) =
            create_request(search)
              \o (IF requests = <<>> THEN <<>> ELSE Last(pages).cont.pairs)]_vars
C4_Witness ==
  /\ Len(requests) >= 2
  /\ Len(pages[1].cont.pairs) >= 2
  /\ search = <<"x", "&", "y", "|", "z">>

\* C5: once an Err has been yielded it is the only one, every item of the
\* pages received was yielded before it, only end-of-stream follows it, the
\* state is Done with no request in flight, and from then on no request is
\* sent and no item is yielded.
C5_AfterErr ==
  Count("err") > 0 =>
    /\ Count("err") = 1
    /\ panicked = ""
    /\ state = StDone /\ fut.st = "none"
    /\ Len(requests) = Len(pages)
    /\ Range(PageItems) = {out[j].item : j \in {i \in 1..ErrIndex : out[i].k = "item"}}
    /\ \A j \in (ErrIndex + 1)..Len(out) : out[j].k = "end"
C5_ErrIsTerminal ==
  /\ [](C5_AfterErr)
  /\ [][Count("err") > 0 => (requests' = requests /\ OutItems' = OutItems)]_vars
C5_Witness ==
  /\ Count("err") = 1 /\ Count("end") > 0
  /\ Len(pages) >= 2 /\ Len(OutItems) >= 1

\* C6: at most one request is unanswered at any time, it is unanswered
\* exactly while the state holds its pending future, and while it is
\* unanswered every item of every page received before it has been yielded.
C6_Sequential ==
  /\ Len(requests) - Len(pages) \in {0, 1}
  /\ Len(requests) > Len(pages) <=> (state.tag = "Fut" /\ fut.st = "pending")
  /\ Len(requests) > Len(pages) => Range(PageItems) \subseteq Range(OutItems)
C6_Witness ==
  /\ Len(requests) = 3 /\ Len(pages) = 2
  /\ Len(OutItems) = 2 * MaxPageLen

\* C7: once poll_next has returned end-of-stream, the next poll returns
\* end-of-stream again, without a panic and without a request.
C7_DoneAbsorbing ==
  [][ret.k = "end" => (ret'.k = "end" /\ panicked' = "" /\ requests' = requests)]_vars

\* C8: a bot-password login returns an authorized client only if the body
\* of the login POST has a login member whose result is the string Success.
C8_AuthOnlyOnSuccess ==
  (loutcome.k = "Ok" /\ linput.path # "oauth") =>
    (lbody.login /\ lbody.result.kind = "str" /\ lbody.result.s = "Success")
C8_Witness == loutcome.k = "Ok" /\ linput.path = "login"

\* C9: a login whose POST was answered with anything but Success ends by
\* returning an error value.
C9_FailureIsErrValue ==
  (lpc = "end" /\ lbody.result.kind # "none"
     /\ ~(lbody.login /\ lbody.result.kind = "str" /\ lbody.result.s = "Success")) =>
    loutcome.k = "Err"

\* C10: in a bot-password login the POST is sent right after the token
\* response and carries its token; the userinfo query is sent only after a
\* Success body; Ok is returned only after the userinfo response; and a
\* failed step (an error, or a body that is not Success) is the last entry
\* of the log.
C10_LoginOrder ==
  linput.path # "oauth" =>
    /\ \A i \in 1..Len(llog) :
         (llog[i].ev = "send" /\ llog[i].what = "login") =>
           /\ i >= 3
           /\ llog[i - 2] = Sent("tokens", Main_tokens_login)
           /\ llog[i - 1].ev = "recv" /\ llog[i - 1].what = "tokens" /\ llog[i - 1].ok
           /\ FormField(llog[i].body, <<"lgtoken">>) = llog[i - 1].token
    /\ \A i \in 1..Len(llog) :
         (llog[i].ev = "send" /\ llog[i].what = "userinfo") =>
           /\ i >= 2
           /\ llog[i - 1].ev = "recv" /\ llog[i - 1].what = "login" /\ llog[i - 1].ok
           /\ lbody.login /\ lbody.result.kind = "str" /\ lbody.result.s = "Success"
    /\ loutcome.k = "Ok" =>
         /\ Last(llog).ev = "recv" /\ Last(llog).what = "userinfo" /\ Last(llog).ok
    /\ \A i \in 1..Len(llog) :
         (llog[i].ev = "recv" /\ ~llog[i].ok) => i = Len(llog)
    /\ (lbody.result.kind # "none"
          /\ ~(lbody.login /\ lbody.result.kind = "str" /\ lbody.result.s = "Success")) =>
         Last(llog).what = "login"
C10_Witness ==
  /\ loutcome.k = "Ok" /\ linput.path = "password"
  /\ Len(llog) = 6

\* The name the userinfo query reported, once it has answered.
ReportedName ==
  IF llog # <<>> /\ Last(llog).ev = "recv" /\ Last(llog).what = "userinfo" /\ Last(llog).ok
    THEN Last(llog).token ELSE <<>>
IsIpLiteral(name) == Ipv4Addr_from_str_is_ok(name) \/ Ipv6Addr_from_str_is_ok(name)

\* C11: on every login path, no login returns an authorized client when the
\* current user name the server reported parses as an IPv4 or IPv6 literal.
C11_IpLiteralIsUnauthorized ==
  loutcome.k = "Ok" => ~IsIpLiteral(ReportedName)

\* The positions of slog at which a request of the given kind was sent.
SentIdx(what) == {i \in 1..Len(slog) : slog[i].what = what}

\* C12: over any sequence of saves on one Bot at most one request for a CSRF
\* token is sent.
C12_AtMostOneCsrfRequest == Cardinality(SentIdx("tokens")) <= 1

\* C13: of any two edits sent on one Bot, the later is sent at least the
\* configured period after the earlier.
C13_MinimumInterval ==
  \A i, j \in SentIdx("edit") :
    i < j => slog[j].at >= slog[i].at + period

\* C14: a task whose edit request is in flight holds the Bot's Mutex, and no
\* two edit requests of one Bot are in flight together.
C14_EditsSerialized ==
  /\ \A t \in Tasks : spc[t] = "edit" => control.holder = t
  /\ Cardinality({t \in Tasks : spc[t] = "edit"}) <= 1

\* The strings joined with sep between them, and each preceded by sep.
RECURSIVE JoinWith(_, _)
JoinWith(strs, sep) ==
  IF strs = <<>> THEN <<>>
  ELSE IF Len(strs) = 1 THEN strs[1]
  ELSE strs[1] \o <<sep>> \o JoinWith(Tail(strs), sep)
PrefixEach(strs, sep) == Concat([i \in 1..Len(strs) |-> <<sep>> \o strs[i]])
HasPipe(strs) == \E i \in 1..Len(strs) : "|" \in Range(strs[i])

\* The elements of h in the order of their first occurrence.
RECURSIVE FirstOccurrences(_, _)
FirstOccurrences(h, seen) ==
  IF h = <<>> THEN seen
  ELSE FirstOccurrences(Tail(h),
                        IF Head(h) \in Range(seen) THEN seen ELSE Append(seen, Head(h)))

\* A value that is absent, false or an empty collection.
IsAbsent(v) ==
  \/ v.opt /\ ~v.some
  \/ v.ty = "bool" /\ ~v.b
  \/ v.ty = "Vec" /\ v.items = <<>>
  \/ v.ty = "EnumSet" /\ v.values = <<>>
  \/ v.ty = "Bitflags" /\ v.bits = {}
  \/ v.ty = "Limit" /\ v.k = "None"

\* A list that is present and not empty was encoded.
EncodedVec == ein.what = "value" /\ ein.v.ty = "Vec" /\ ein.v.some /\ ein.v.items # <<>>
EncodedEnumSet == ein.what = "value" /\ ein.v.ty = "EnumSet" /\ ein.v.some
SetNames == [i \in 1..Len(ein.v.values) |-> variant_name(ein.v.values[i])]

\* C15: encoding a field whose value is None, false, an empty list, an empty
\* EnumSet, an empty bit-flag set or Limit::None writes no pair.
C15_AbsentWritesNoPair ==
  (ein.what = "value" /\ IsAbsent(ein.v)) => eout = <<>>

\* C16: an insert of a variant already in the set returns false and leaves
\* the set as it was, an insert of a new variant returns true and appends
\* it; so the set holds the variants in the order of their first insertion,
\* each once, and its encoding lists their names once each in that order.
C16_SetIsFirstOccurrences ==
  /\ eset.values = FirstOccurrences(ehist, <<>>)
  /\ EncodedEnumSet =>
       LET names == [i \in 1..Len(FirstOccurrences(ehist, <<>>)) |->
                       variant_name(FirstOccurrences(ehist, <<>>)[i])]
       IN /\ Len(eout) = 1
          /\ eout[1][2] \in {JoinWith(names, "|"), PrefixEach(names, UnitSeparator)}
C16_InsertOnce ==
  /\ [](C16_SetIsFirstOccurrences)
  /\ [][ehist' # ehist =>
          IF Last(ehist') \in Range(eset.values)
            THEN eret' = "false" /\ eset' = eset
            ELSE /\ eret' = "true"
                 /\ eset'.values = Append(eset.values, Last(ehist'))]_vars
C16_Witness ==
  /\ EncodedEnumSet
  /\ ehist = <<2, 1, 2>> /\ eret = "false"
  /\ eout = << << <<"name">>, <<"content", "|", "ids">> >> >>

\* C17: a list of values is encoded as the values joined by "|" when no value
\* contains "|", and as every value preceded by U+001F when some value does.
C17_MultiValue ==
  EncodedVec =>
    eout = << << <<"name">>,
                 IF HasPipe(ein.v.items)
                   THEN PrefixEach(ein.v.items, UnitSeparator)
                   ELSE JoinWith(ein.v.items, "|") >> >>
C17_Witness ==
  /\ EncodedVec
  /\ ein.v.items = << <<"a", "|", "x">>, <<"b">> >>
  /\ eout = << << <<"name">>, <<UnitSeparator, "a", "|", "x", UnitSeparator, "b">> >> >>

\* C18 as stated: a list of caller-supplied strings is joined with "|"
\* whatever the values: its encoding never holds U+001F.
C18_StringsAlwaysPipe ==
  (EncodedVec /\ ein.v.elem = "String") =>
    /\ UnitSeparator \notin Range(eout[1][2])
    /\ eout[1][2] = JoinWith(ein.v.items, "|")

\* C18 as amended: a list of numbers is joined with "|" whatever the values;
\* a list of caller-supplied strings is joined with "|" only while no value
\* contains "|": its encoding uses U+001F exactly when some value does.
C18_OnlyStringsWithPipeSwitch ==
  EncodedVec =>
    /\ UnitSeparator \in Range(eout[1][2]) <=>
         (ein.v.elem = "String" /\ HasPipe(ein.v.items))
    /\ ein.v.elem # "String" => eout[1][2] = JoinWith(ein.v.items, "|")
C18_Witness ==
  /\ EncodedVec /\ ein.v.elem = "String"
  /\ HasPipe(ein.v.items) /\ Len(ein.v.items) = 2
  /\ UnitSeparator \in Range(eout[1][2])

\* C19: an EnumSet is encoded as the names of its variants joined by "|",
\* and as every name preceded by U+001F when the name of some variant in the
\* set contains "|".
C19_EnumSetSwitches ==
  (EncodedEnumSet /\ ein.v.values # <<>>) =>
    eout[1][2] = IF HasPipe(SetNames)
                   THEN PrefixEach(SetNames, UnitSeparator)
                   ELSE JoinWith(SetNames, "|")

\* C20: a PageSpec flattened into ListCategoryMembers, whose prefix is cm, is
\* written as cmtitle or cmpageid and never as title or pageid; flattened
\* into Edit, which has no prefix, it is written as title or pageid.
C20_FlattenUnderPrefix ==
  /\ ein.what = "ListCategoryMembers" =>
       /\ eout[1] = << <<IF ein.spec.variant = "title" THEN "cmtitle" ELSE "cmpageid">>,
                       ein.spec.v.items[1] >>
       /\ \A i \in 1..Len(eout) : eout[i][1] \notin {<<"title">>, <<"pageid">>}
  /\ ein.what = "Edit" =>
       /\ eout[1] = << <<IF ein.spec.variant = "title" THEN "title" ELSE "pageid">>,
                       ein.spec.v.items[1] >>
       /\ \A i \in 1..Len(eout) : eout[i][1] \notin {<<"cmtitle">>, <<"cmpageid">>}
C20_Witness ==
  /\ ein.what = "ListCategoryMembers"
  /\ ein.spec = PageSpec_Title(<<"a", "|", "x">>)
  /\ eout[1] = << <<"cmtitle">>, <<"a", "|", "x">> >>
  /\ Len(eout) = 4

\* What the field's wp attributes declare, taken together.
Declares(k) ==
  \E i \in 1..Len(dattrs) :
    /\ dattrs[i].path = "wp"
    /\ dattrs[i].list
    /\ \E j \in 1..Len(dattrs[i].nested) : dattrs[i].nested[j].k = k

\* C21: a field declared with both flatten and a name override is a
\* configuration error of the derive, whether the two options stand in one
\* attribute or in two; it is never accepted with one of them dropped.
C21_FlattenAndNameRejected ==
  (dcode.k # "none" /\ Declares("flatten") /\ Declares("name"))
    => dcode.k = "compile_error"

\* The positions of the pairs written under one of the names.
PairsNamed(names) == {i \in 1..Len(eout) : eout[i][1] \in {<<n>> : n \in names}}
\* The section field of the Edit that was encoded.
EditSectionField == ein.fields[2].v

\* C22: an encoded Edit carries exactly one page-target pair, named after the
\* chosen PageSpec variant and holding its value.  A new-section edit
\* carries section=new with sectiontitle=<title> right after it; another
\* section carries the section pair alone, and no section carries neither.
C22_MutuallyExclusiveUnion ==
  ein.what = "Edit" =>
    /\ Cardinality(PairsNamed({"title", "pageid"})) = 1
    /\ \A i \in PairsNamed({"title", "pageid"}) :
         eout[i] = << <<ein.spec.variant>>, ein.spec.v.items[1] >>
    /\ LET sec == EditSectionField
           at == PairsNamed({"section"})
           titles == PairsNamed({"sectiontitle"})
       IN IF ~sec.some THEN at = {} /\ titles = {}
          ELSE /\ Cardinality(at) = 1
               /\ \A i \in at :
                    IF sec.k = "New"
                    THEN /\ eout[i] = << <<"section">>, <<"new">> >>
                         /\ titles = {i + 1}
                         /\ eout[i + 1] = << <<"sectiontitle">>, sec.items[1] >>
                    ELSE /\ eout[i] = << <<"section">>, sec.items[1] >>
                         /\ titles = {}

C22_Witness ==
  /\ ein.what = "Edit"
  /\ ein.spec = PageSpec_PageId(<<"22">>)
  /\ EditSectionField = FSome(FEditSection("New", <<"a">>))
  /\ eout[1] = << <<"pageid">>, <<"22">> >>
  /\ eout[2] = << <<"section">>, <<"new">> >>
  /\ eout[3] = << <<"sectiontitle">>, <<"a">> >>

\* The names the fields of a request are written under, as declared.
EditDeclared ==
  <<"title", "pageid", "section", "sectiontitle", "text", "summary", "tags", "minor",
    "notminor", "bot", "baserevid", "basetimestamp", "starttimestamp", "recreate",
    "createonly", "nocreate", "watchlist", "watchlistexpiry", "md5", "prependtext",
    "appendtext", "undo", "undoafter", "redirect", "contentformat", "contentmodel",
    "token", "captchaword", "captchaid">>
LoginDeclared == <<"lgname", "lgpassword", "lgtoken">>
Pos(decl, name) == CHOOSE k \in 1..Len(decl) : <<decl[k]>> = name

\* The pairs of an encoded Main: action first, the fields of the action in
\* the order of their declaration, a field that is absent leaving no pair,
\* then format and formatversion.
C23_Order ==
  ein.what = "Main" =>
    LET n == Len(eout)
        decl == IF ein.action = "edit" THEN EditDeclared ELSE LoginDeclared
    IN /\ n >= 3
       /\ eout[1] = << <<"action">>, <<ein.action>> >>
       /\ eout[n - 1] = << <<"format">>, <<"json">> >>
       /\ eout[n] = << <<"formatversion">>, <<"2">> >>
       /\ \A i \in 2..(n - 2) : \E k \in 1..Len(decl) : <<decl[k]>> = eout[i][1]
       /\ \A i, j \in 2..(n - 2) :
            i < j => Pos(decl, eout[i][1]) < Pos(decl, eout[j][1])
       /\ \A k \in 1..Len(ein.fields) :
            ~ein.fields[k].flatten =>
              (IsAbsent(ein.fields[k].v)
                 <=> PairsNamed({ein.pp \o ein.fields[k].name}) = {})

MissingField ==
  IF builder.spec = NoSpec THEN "spec"
  ELSE IF ~builder.token.some THEN "token" ELSE "-"

\* C24: build and try_build give an Edit exactly when the page target and
\* the token were set, with every other field as the builder held it; with
\* either missing they fail with an error value naming the missing field,
\* never with a bare failure or a panic.
C24_BuildNamesMissingField ==
  bres.k # "none" =>
    IF MissingField = "-"
    THEN /\ bres.k \in {"Some", "Edit"}
         /\ bres.edit = Edit(builder.spec, builder.section, builder.text, builder.tags,
                             builder.bot, builder.baserevid,
                             [builder.token EXCEPT !.opt = FALSE])
    ELSE /\ bres.k = "Err"
         /\ bres.e = MissingField

\* The response is a JSON object whose error member is not null.
HasServerError ==
  qresp.k = "json" /\ qresp.top = "object" /\ qresp.error.kind \in {"str", "obj"}

\* The operations that read their response with send_and_report_err, alone
\* or inside send_parse.
BuiltOnSendAndReportErr == {"get_d", "fetch", "fetch_content", "poll_next", "login_"}

UnexpectedShape ==
  /\ qresp.k = "json"
  /\ ~(qresp.top = "object" /\ qresp.error.kind # "absent")
  /\ ~(qresp.data.decodes /\ qresp.data.pages = 1 /\ qresp.data.revisions = 1)

\* C30: fetching a page never panics; a response of unexpected shape (no
\* page, several pages, no or several revisions, fields missing) is returned
\* as a decode error.
C30_FetchNeverPanics ==
  (qpc = "done" /\ qpath \in {"fetch", "fetch_content"}) =>
    /\ qout.k # "Panic"
    /\ UnexpectedShape => (qout.k = "Err" /\ qout.e = "SerdeJson")

\* C26: Page::save on a page that has no Bot returns an error value; it
\* never panics.
C26_SaveWithoutBotIsErr == \A t \in Tasks : sres[t] # "Panic"

\* C29: Page::save returns an error whenever the response to its edit
\* request carries an error value, and Ok only when the edit was accepted.
C29_SaveReportsEditError ==
  (qpc = "done" /\ qpath = "save") =>
    /\ HasServerError => qout.k = "Err"
    /\ qout.k = "Ok" =>
         (qresp.k = "json" /\ qresp.top = "object" /\ qresp.error.kind = "absent")

\* C27: polling a generator stream, or dropping it at any point, request in
\* flight or not, leaves the Session as it was: the same URL, credentials
\* and edit gate, and the gate held by nobody.
C27_SessionUntouched ==
  /\ [](session.gate = GateFree)
  /\ [][session' = session]_vars

C27_Witness ==
  /\ ~streams[1].alive
  /\ streams[1].state.tag = "Fut"
  /\ streams[1].out # <<>>
  /\ streams[2].alive /\ streams[2].fut.st = "pending"
  /\ session.auth = "bot"
  /\ session.gate = GateFree

\* What a stream yields when it is the only one and is polled to its end.
RECURSIVE RunAlone(_)
RunAlone(s) ==
  IF Ended(s) \/ s.panicked # "" THEN s.out
  ELSE IF s.fut.st = "pending"
    THEN RunAlone([s EXCEPT !.fut.st = "ready", !.fut.res = Serve(s.fut.q)])
    ELSE RunAlone(poll_next(session, [g \in Streams |-> s], 1).stream)

\* C28: under every interleaving of two streams on one Session each stream
\* yields what it yields alone: always a prefix of that sequence, and the
\* whole of it once it has ended.
C28_StreamsIndependent ==
  \A g \in Streams :
    LET alone == RunAlone(Stream_new(streams[g].search)) IN
    /\ IsPrefix(streams[g].out, alone)
    /\ Ended(streams[g]) => streams[g].out = alone

C28_Witness ==
  /\ streams[1].search = <<"a", " ", "b">>
  /\ streams[2].search = <<"x", "&", "y", "|", "z">>
  /\ Ended(streams[1]) /\ Ended(streams[2])
  /\ streams[1].out = <<RetItem(2), RetItem(1), RetItem(3), RetEnd>>
  /\ streams[2].out = <<RetItem(5), RetItem(4), RetErr("MediaWiki"), RetEnd>>

\* The non-flattened fields of the encoded request that are booleans.
BoolFields == {k \in 1..Len(ein.fields) : ~ein.fields[k].flatten /\ ein.fields[k].v.ty = "bool"}

\* C31: a boolean that is true is written as exactly one pair, the field's
\* name with the empty string as its value, standing where the field stands
\* among the declared fields; a boolean that is false is written as no pair;
\* no word such as true or 1 is ever the value.
C31_BoolIsEmptyPair ==
  /\ (ein.what = "value" /\ ein.v.ty = "bool" /\ ~ein.v.opt) =>
       eout = IF ein.v.b THEN << << <<"name">>, <<>> >> >> ELSE <<>>
  /\ ein.what \in {"Edit", "Main"} /\ ein.action = "edit" =>
       \A k \in BoolFields :
         LET name == ein.pp \o ein.fields[k].name
             at == PairsNamed({name})
         IN IF ~ein.fields[k].v.b THEN at = {}
            ELSE /\ Cardinality(at) = 1
                 /\ \A i \in at :
                      /\ eout[i] = << <<name>>, <<>> >>
                      /\ \A j \in 1..Len(eout) :
                           (eout[j][1] \in {<<d>> : d \in Range(EditDeclared)} /\ j # i)
                             => (j < i <=> Pos(EditDeclared, eout[j][1])
                                            < Pos(EditDeclared, <<name>>))

C31_Witness ==
  /\ ein.what = "Main"
  /\ ein.action = "edit"
  /\ Len(eout) = 9
  /\ eout[3] = << <<"text">>, <<"a">> >>
  /\ eout[4] = << <<"bot">>, <<>> >>
  /\ eout[5] = << <<"baserevid">>, <<"22">> >>
  /\ eout[6] = << <<"recreate">>, <<>> >>
  /\ eout[7] = << <<"token">>, <<"tok", "+">> >>

\* C32: a Page::save called on a page whose changed flag is false returns Ok
\* at once: no token request and no edit request is sent, the Mutex and
\* the Interval of the Bot are left as they were, and the task stays where it
\* was.
C32_CleanSaveIsNoOp ==
  [][\A t \in Tasks :
       (SaveCall(t) /\ ~spage'[t].changed) =>
         /\ sres'[t] = "Ok"
         /\ slog' = slog
         /\ control' = control
         /\ deadline' = deadline
         /\ spc' = spc]_vars

\* The identifiers and variant names a pair's name can end with.
Idents == {"title", "pageid", "limit", "type", "ty", "prop", "name", "password", "token"}
\* The name starts with the prefix pp.
StartsWith(name, pp) == \E d \in Idents : name = <<pp \o d>>

\* C33: every pair written by a record declared with prepend_all carries a
\* name starting with that prefix, the pair of a field with a name override
\* included: the type field of ListCategoryMembers is written as cmtype.
C33_EveryNamePrefixed ==
  (ein.what \in {"ListCategoryMembers", "Login"} /\ ein.pp # "") =>
    /\ \A i \in 1..Len(eout) : StartsWith(eout[i][1], ein.pp)
    /\ ein.what = "ListCategoryMembers" => PairsNamed({"cmtype"}) # {}

\* The names of the single flags of LogEventsProp that are set, in the order
\* of declaration.
SetFlagNames(bits) ==
  LET idx == SelectSeq([i \in 1..10 |-> i], LAMBDA i : i \in bits)
  IN [j \in 1..Len(idx) |-> LogEventsProp[idx[j]].name]

\* C34: a bit-flag field is written as the names of the single flags that
\* are set, each once, in the order of declaration, joined by "|"; a
\* constant made of several flags, such as DEFAULT, adds no name of its own,
\* whatever the combination of flags.
C34_BitflagsNames ==
  (ein.what = "value" /\ ein.v.ty = "LogEventsProp") =>
    eout = << << <<"name">>, JoinWith(SetFlagNames(ein.v.bits), "|") >> >>

\* C35: whatever constructors, conversions and inserts made an EnumSet, its
\* values hold no variant twice and its flag is the OR of the flags of the
\* values.
C35_EnumSetWellFormed ==
  /\ \A i, j \in 1..Len(cset.values) : cset.values[i] = cset.values[j] => i = j
  /\ cset.flag = FlagsOr(0, cset.values)

\* How the target API reads a multi-value parameter: after a leading
\* U+001F the rest is split on U+001F, anything else is split on "|".
MultiValueDecode(str) ==
  IF str # <<>> /\ Head(str) = UnitSeparator
    THEN SplitOn(Tail(str), UnitSeparator)
    ELSE SplitOn(str, "|")

\* C36: for a list of one or more strings none of which holds U+001F,
\* reading encode_multivalue(list) the way the target API does gives the
\* list back, value by value and in order.
C36_MultiValueRoundTrip ==
  (/\ vout.done
   /\ vin # <<>>
   /\ \A i \in 1..Len(vin) : UnitSeparator \notin Range(vin[i]))
    => MultiValueDecode(vout.s) = vin

C36_Witness ==
  /\ vout.done
  /\ vin = << <<"a", "|", "x">>, <<>>, <<"a">> >>
  /\ vout.s = <<UnitSeparator, "a", "|", "x", UnitSeparator, UnitSeparator, "a">>
  /\ MultiValueDecode(vout.s) = vin

\* C37: when Site::login returns an error value, the caller has the Site it
\* called login on back beside the error, with the URL and the client it
\* had, and no Bot, no Mutex around an Interval and no JobQueue exists.
C37_FailedLoginReturnsSite ==
  (linput.path = "login" /\ loutcome.k = "Err") =>
    /\ lmade.site = "returned"
    /\ lmade.url = linput.url
    /\ lmade.client = SiteHeld.client
    /\ ~lmade.bot
    /\ ~lmade.control
    /\ ~lmade.queue

C37_Witness ==
  /\ linput.path = "login"
  /\ loutcome = Outcome("Err", "MediaWiki")
  /\ lmade.site = "returned"
  /\ Len(llog) = 4

\* C38: a stream that keeps being polled, over a transport that answers
\* every request and a server whose listing ends, reaches State::Done and
\* returns end-of-stream.
C38_EventuallyDone == <>(state.tag = "Done" /\ ret.k = "end")

\* The patroller has yielded an error.
PatrolErred == \E i \in 1..Len(pout) : pout[i].k = "err"

\* End-of-stream is returned only after an error, there is one error at
\* most, and nothing but end-of-stream follows it.
C39_EndAfterError ==
  \A i \in 1..Len(pout) :
    /\ pout[i].k = "end" => \E j \in 1..(i - 1) : pout[j].k = "err"
    /\ pout[i].k = "err" => \A j \in (i + 1)..Len(pout) : pout[j].k = "end"

\* Once an error was yielded no request is sent and no round is started, and
\* a poll returns end-of-stream.  A round is started only by a sleep that is
\* over, and an inner stream that ends is replaced, without end-of-stream
\* being returned, by a sleep of the interval.
C39_Step ==
  /\ PatrolErred => /\ psent' = psent
                    /\ prounds' = prounds
                    /\ pout' # pout => pout' = Append(pout, RetEnd)
  /\ Len(prounds') > Len(prounds) =>
       \/ patroller.state.tag = "Sleep" /\ pclock >= patroller.state.deadline
       \/ patroller.state.tag = "Stream" /\ patroller.interval = 0
  /\ (patroller.state.tag = "Stream" /\ patroller'.state.tag = "Sleep") =>
       /\ patroller'.state.deadline = pclock + patroller.interval
       /\ pout' = pout

\* C39: the patroller returns end-of-stream only after it has yielded an
\* error.  An inner stream that ends makes it sleep for the interval and
\* start a new round; the first error is yielded once, and every poll after
\* it returns end-of-stream and sends nothing.
C39_PatrollerEndsOnlyAfterError == [](C39_EndAfterError) /\ [][C39_Step]_vars

C39_Witness ==
  /\ Len(prounds) = 2
  /\ Len(pout) >= 3
  /\ pout[Len(pout) - 2].k = "item"
  /\ pout[Len(pout) - 1].k = "err"
  /\ pout[Len(pout)].k = "end"
  /\ patroller.interval = 1

\* The bound a query carries under a name.
SentBound(i, name) == QueryValue(ParseQuery(psent[i].q), name, <<>>)

\* C40: the rounds of the patroller query windows that touch: the end of
\* the first is the timestamp taken at creation, the end of every later one
\* is the start of the round before it, and the queries sent carry these
\* bounds as rcstart and rcend.
C40_ContiguousWindows ==
  /\ \A k \in 1..Len(prounds) :
       prounds[k].end = IF k = 1 THEN pcreated ELSE prounds[k - 1].start
  /\ \A i \in 1..Len(psent) :
       LET k == psent[i].round IN
       /\ SentBound(i, "rcstart") = MwTimestamp_format(prounds[k].start)
       /\ SentBound(i, "rcend") =
            MwTimestamp_format(IF k = 1 THEN pcreated ELSE prounds[k - 1].start)

C40_Witness ==
  /\ Len(prounds) = 2
  /\ prounds[1].end = pcreated
  /\ prounds[1].start > pcreated
  /\ prounds[2].end = prounds[1].start
  /\ prounds[2].start > prounds[2].end
  /\ \E i \in 1..Len(psent) : psent[i].round = 2

====
